---- MODULE Spec2Model ----
(***************************************************************************)
(* The FDC protocol engine of knitty2 (src/src/fdcemu.rs): FdcServer::run  *)
(* and the handlers it dispatches to, stepped at the granularity of the    *)
(* serial port's reads (every read of a byte is a suspension point; the    *)
(* computation and the writes that follow a read up to the next read are   *)
(* part of the same step), together with Disk::save.                       *)
(*                                                                         *)
(* Bytes are the integers 0..255.  A sector is [id |-> bytes, data |->     *)
(* bytes]; the disk is a function from 0..SECTOR_COUNT-1 to sectors; the   *)
(* backing file is [exists, recs]: whether there is one, and the sector     *)
(* records it holds.                                                       *)
(***************************************************************************)
EXTENDS Integers, Sequences, FiniteSets, TLC

\* ------------------------------------------------------------------ sizes

\* Number of sectors (the source's value).
SECTOR_COUNT == 80

\* Length of a sector identifier.  12 in the source; scaled down here, every
\* definition below is written for any length.
SECTOR_ID_LEN == 2

\* Length of a sector data body.  1024 in the source; scaled down here.
SECTOR_DATA_LEN == 3

\* The host sends at most MaxZeros idle (zero) bytes while the engine waits
\* for the Op-mode preamble.
MaxZeros == 2

\* The host sends Op-mode requests with datalen in 0..MaxDataLen (a u8 in
\* the source).
MaxDataLen == 2

\* ------------------------------------------------------------------ bytes

B_CR == 13
B_SP == 32
B_COMMA == 44
B_PLUS == 43
B_MINUS == 45
B_Z == 90
B_A == 65
B_S == 83
B_B == 66
B_C == 67
B_W == 87
B_X == 88
B_R == 82
OP_CMD_FDC == 8

\* ASCII digit d.
Dg(d) == 48 + d

\* ------------------------------------------------------------ pure helpers

Err == -1

IsPrefix(s, t) == Len(s) <= Len(t) /\ \A i \in 1..Len(s) : s[i] = t[i]

Zeros(n) == [i \in 1..n |-> 0]

\* 1, 2, 3, ... (the identifier 01 02 .. 0C of the spec's search scenario).
Ramp(n) == [i \in 1..n |-> i % 256]

EMPTY == [id |-> Zeros(SECTOR_ID_LEN), data |-> Zeros(SECTOR_DATA_LEN)]

\* Disk::new
NewDisk == [p \in 0..(SECTOR_COUNT - 1) |-> EMPTY]

\* The record stream Disk::save writes / Disk::load reads for a disk.
Image(d) == [i \in 1..SECTOR_COUNT |-> d[i - 1]]

\* Disk::load of a complete file.
Load(f) == [p \in 0..(SECTOR_COUNT - 1) |-> f[p + 1]]

\* str::parse::<u8> of the bytes bs (after str::from_utf8): Err for an empty
\* string, a lone sign, a '-', a non-digit (every byte of a non-ASCII
\* character is one) or a value above 255; a leading '+' is accepted.
RECURSIVE DigitsValue(_, _)
DigitsValue(bs, acc) ==
    IF bs = <<>> THEN acc
    ELSE IF bs[1] < Dg(0) \/ bs[1] > Dg(9) THEN Err
    ELSE LET v == acc * 10 + (bs[1] - Dg(0))
         IN IF v > 255 THEN Err ELSE DigitsValue(Tail(bs), v)

ParseU8(bs) ==
    IF bs = <<>> THEN Err
    ELSE IF bs[1] \in {B_PLUS, B_MINUS} /\ Len(bs) = 1 THEN Err
    ELSE IF bs[1] = B_PLUS THEN DigitsValue(Tail(bs), 0)
    ELSE DigitsValue(bs, 0)

\* slice::split(|b| *b == b','): the fields between the commas, empty ones
\* included.
RECURSIVE SplitComma(_, _, _)
SplitComma(bs, cur, acc) ==
    IF bs = <<>> THEN Append(acc, cur)
    ELSE IF bs[1] = B_COMMA THEN SplitComma(Tail(bs), <<>>, Append(acc, cur))
    ELSE SplitComma(Tail(bs), Append(cur, bs[1]), acc)

\* read_fdc_args, after the loop: the parsed arguments of the buffer.
ParsedArgs(b) == IF b = <<>> THEN <<>> ELSE SplitComma(b, <<>>, <<>>)

\* (a bound check that lets index SECTOR_COUNT through)
PsnInRange_Inclusive(p) == p <= SECTOR_COUNT

\* The ensure! of parse_psn_lsn.
PsnInRange(p) == p < SECTOR_COUNT

\* (a search that takes any argument line)
NoArgs_Unchecked(args) == TRUE

\* The ensure! of fdc_search_id_section: args.is_empty().
NoArgs(args) == args = <<>>

\* parse_psn_lsn: [ok, psn, lsn]; ok is FALSE for an error return.
parse_psn_lsn(args) ==
    LET p == IF Len(args) >= 1 THEN ParseU8(args[1]) ELSE 0
        l == IF Len(args) >= 2 THEN ParseU8(args[2]) ELSE 1
    IN IF p = Err \/ ~PsnInRange(p) THEN [ok |-> FALSE, psn |-> 0, lsn |-> 0]
       ELSE IF l = Err THEN [ok |-> FALSE, psn |-> 0, lsn |-> 0]
       ELSE [ok |-> TRUE, psn |-> p, lsn |-> l]

\* ({:x}: lower-case digits)
HexDigit_Lower(d) == IF d < 10 THEN 48 + d ELSE 87 + d

\* {:X} of one hex digit.
HexDigit(d) == IF d < 10 THEN 48 + d ELSE 55 + d

\* {:02X}: upper-case hex, zero-padded to at least two digits.
RECURSIVE HexDigits(_)
HexDigits(n) == IF n < 16 THEN <<HexDigit(n)>>
                ELSE Append(HexDigits(n \div 16), HexDigit(n % 16))

\* ({:X}: no padding)
Hex02_NoPad(n) == HexDigits(n)

Hex02(n) == IF n < 16 THEN <<48>> \o HexDigits(n) ELSE HexDigits(n)

\* format!("00{psn:02X}0000")
StatusReply(n) == <<48, 48>> \o Hex02(n) \o <<48, 48, 48, 48>>

\* b"40000000"
SearchMiss == <<52, 48, 48, 48, 48, 48, 48, 48>>

\* b"00000000"
SearchReady == <<48, 48, 48, 48, 48, 48, 48, 48>>

\* sectors.iter().position(|sector| sector.id == sector_id), from index i
\* on: the first index whose identifier equals the target, or Err.
RECURSIVE PositionFrom(_, _, _)
PositionFrom(d, target, i) ==
    IF i >= SECTOR_COUNT THEN Err
    ELSE IF d[i].id = target THEN i
    ELSE PositionFrom(d, target, i + 1)

\* (rposition: the last index whose identifier equals the target)
Position_Last(d, target) ==
    LET hits == {p \in 0..(SECTOR_COUNT - 1) : d[p].id = target}
    IN IF hits = {} THEN Err
       ELSE CHOOSE p \in hits : \A q \in hits : q <= p

Position(d, target) == PositionFrom(d, target, 0)

\* (the identifier stored in the sector after the one addressed)
StoreId_NextSector(d, p, bytes) == [d EXCEPT ![(p + 1) % SECTOR_COUNT].id = bytes]

\* sector.id = sector_id
StoreId(d, p, bytes) == [d EXCEPT ![p].id = bytes]

\* (the body stored in a copy of the sector, not in the disk)
StoreData_Dropped(d, p, bytes) == d

\* (the sector replaced by a fresh one that carries the body)
StoreData_FreshSector(d, p, bytes) ==
    [d EXCEPT ![p] = [id |-> Zeros(SECTOR_ID_LEN), data |-> bytes]]

\* sector.data = data
StoreData(d, p, bytes) == [d EXCEPT ![p].data = bytes]

\* The transcript of a transaction: maximal runs of bytes read ("r") and
\* written ("w"), in order.
Log(t, dir, bytes) ==
    IF bytes = <<>> THEN t
    ELSE IF t # <<>> /\ t[Len(t)].dir = dir
         THEN [t EXCEPT ![Len(t)].bytes = @ \o bytes]
         ELSE Append(t, [dir |-> dir, bytes |-> bytes])

\* ------------------------------------------------------------ the host

\* The argument lines (without the closing \r) the host sends after a
\* command letter: none; " "; " 79"; "80"; "79,2"; "256"; "7 9"; "79,256";
\* "79 , 2".
HostLines ==
    { <<>>,
      <<B_SP>>,
      <<B_SP, Dg(7), Dg(9)>>,
      <<Dg(8), Dg(0)>>,
      <<Dg(7), Dg(9), B_COMMA, Dg(2)>>,
      <<Dg(2), Dg(5), Dg(6)>>,
      <<Dg(7), B_SP, Dg(9)>>,
      <<Dg(7), Dg(9), B_COMMA, Dg(2), Dg(5), Dg(6)>>,
      <<Dg(7), Dg(9), B_SP, B_COMMA, B_SP, Dg(2)>> }

\* What the host means by each of its lines: the decimal value of the first
\* field, spaces apart; 0 when the line has no field.
HostLinePsn(l) ==
    CASE l = <<>> -> 0
      [] l = <<32>> -> 0
      [] l = <<32, 55, 57>> -> 79
      [] l = <<56, 48>> -> 80
      [] l = <<55, 57, 44, 50>> -> 79
      [] l = <<50, 53, 54>> -> 256
      [] l = <<55, 32, 57>> -> 79
      [] l = <<55, 57, 44, 50, 53, 54>> -> 79
      [] l = <<55, 57, 32, 44, 32, 50>> -> 79
      [] OTHER -> 0 - 1

\* ... and the decimal value of the second field; 1, the value parse_psn_lsn
\* starts from, when the line has no second field.
HostLineLsn(l) ==
    CASE l = <<55, 57, 44, 50>> -> 2
      [] l = <<55, 57, 44, 50, 53, 54>> -> 256
      [] l = <<55, 57, 32, 44, 32, 50>> -> 2
      [] OTHER -> 1

\* The identifiers and data bodies the host sends.
HostIds == {Zeros(SECTOR_ID_LEN), Ramp(SECTOR_ID_LEN)}
HostData == {Zeros(SECTOR_DATA_LEN), Ramp(SECTOR_DATA_LEN)}

\* The bytes the host sends while the engine waits for the preamble, as a
\* command byte in either mode, as Op-mode data and checksum, as a handshake.
PreambleBytes == {0, B_Z, B_A}
OpCmdBytes == {OP_CMD_FDC, 0, B_Z}
OpDataBytes == {0, B_Z}
ChecksumBytes == {OP_CMD_FDC, 0}
FdcCmdBytes == {B_CR, B_Z, B_A, B_S, B_B, B_C, B_W, B_X, B_R, 81}
HandshakeBytes == {B_CR, B_Z}
LineBytes == {B_CR, B_SP, B_COMMA} \cup {Dg(d) : d \in 0..9}

\* A disk file left by an earlier session: sector 7 carries the identifier
\* 01 02 .. and a non-zero body.
Formatted ==
    [NewDisk EXCEPT ![7] = [id |-> Ramp(SECTOR_ID_LEN),
                            data |-> Ramp(SECTOR_DATA_LEN)]]

\* ------------------------------------------------------------------ state

VARIABLES
    mode,      \* FdcServer.mode: "Op" or "Fdc"
    disk,      \* FdcServer.disk
    file,      \* the file at disk_path: [exists, recs]
    startMode, \* the mode in which the transaction in progress began
    pc,        \* where the engine is
    cmd,       \* the command byte of the handler that is running
    buf,       \* read_fdc_args: buf
    psn,       \* the handler's psn
    rbuf,      \* the bytes a read_exact in progress has received
    datalen,   \* handle_op_mode_request: datalen
    nz,        \* read_nonzero: the non-zero bytes retained in buf
    io,        \* the transcript of the transaction in progress
    lastId,    \* per sector: the identifier loaded, or sent by the last completed B/C
    lastData,  \* per sector: the body loaded, or sent by the last completed W/X
    dump,      \* the RAM image given to MachineState::from_memory_dump, by name;
               \* or the vector given to the last Disk::set_flattened_data
    ms,        \* the MachineState
    pattern,   \* the Pattern given to the last add_pattern or serialize_data; or
               \* the nibbles given to from_bcd
    call,      \* the last call made on the codec or on the Disk's flat view
               \* ("reload": from_memory_dump of the image serialize returned)
    ret        \* the bytes that call returned

vars == <<mode, disk, file, startMode, pc, cmd, buf, psn, rbuf, datalen, nz, io,
          lastId, lastData, dump, ms, pattern, call, ret>>

\* The emulator's variables, and the codec's.
fdc == <<mode, disk, file, startMode, pc, cmd, buf, psn, rbuf, datalen, nz, io,
         lastId, lastData>>
kh == <<dump, ms, pattern, call, ret>>

\* The emulate command builds no MachineState.
NoCodec ==
    /\ dump = 0 /\ ms = <<>> /\ pattern = <<>> /\ call = "none" /\ ret = <<>>

locals == <<cmd, buf, psn, rbuf, datalen, nz>>

\* The handler's locals go out of scope.
DropLocals ==
    /\ cmd' = 0 /\ buf' = <<>> /\ psn' = 0
    /\ rbuf' = <<>> /\ datalen' = 0 /\ nz' = <<>>

\* FdcServer::new: an empty disk, loaded from the file when there is one;
\* mode Op.
Init ==
    /\ mode = "Op"
    /\ startMode = "Op"
    /\ \/ file = [exists |-> FALSE, recs |-> <<>>] /\ disk = NewDisk
       \/ \E d \in {NewDisk, Formatted} :
            /\ file = [exists |-> TRUE, recs |-> Image(d)]
            /\ disk = Load(file.recs)
    /\ pc = "step"
    /\ cmd = 0 /\ buf = <<>> /\ psn = 0
    /\ rbuf = <<>> /\ datalen = 0 /\ nz = <<>>
    /\ io = <<>>
    /\ lastId = [p \in 0..(SECTOR_COUNT - 1) |-> disk[p].id]
    /\ lastData = [p \in 0..(SECTOR_COUNT - 1) |-> disk[p].data]
    /\ NoCodec

\* An error return (bail!, ensure!, ?): it propagates out of run.
Fail(t) ==
    /\ pc' = "failed"
    /\ io' = t
    /\ DropLocals
    /\ UNCHANGED <<mode, disk, file, startMode, lastId, lastData>>

\* Ok(()) from the handler: step returns to run.
Return(t) ==
    /\ pc' = "done"
    /\ io' = t
    /\ DropLocals

\* FdcServer::step
Step ==
    /\ pc = "step"
    /\ pc' = IF mode = "Op" THEN "step_op" ELSE "step_fdc"
    /\ startMode' = mode
    /\ UNCHANGED <<mode, disk, file, locals, io, lastId, lastData>>

\* All bytes read so far in this transaction.
RECURSIVE BytesRead(_)
BytesRead(t) ==
    IF t = <<>> THEN <<>>
    ELSE (IF t[1].dir = "r" THEN t[1].bytes ELSE <<>>) \o BytesRead(Tail(t))

ZerosRead(t) == Len(SelectSeq(BytesRead(t), LAMBDA b : b = 0))

\* (a retain that keeps every byte)
RetainNonzero_All(bs) == bs

\* buf.retain(|b| *b != 0)
RetainNonzero(bs) == SelectSeq(bs, LAMBDA b : b # 0)

\* step_op: read_nonzero(port, 2), one byte of its read_exact at a time,
\* then the ZZ test.
StepOp ==
    /\ pc = "step_op"
    /\ \E b \in PreambleBytes :
        /\ b = 0 => ZerosRead(io) < MaxZeros
        /\ LET t == Log(io, "r", <<b>>)
               chunk == Append(rbuf, b)
               kept == RetainNonzero(nz \o chunk)
           IN IF Len(chunk) < 2 - Len(nz)
              THEN /\ rbuf' = chunk
                   /\ io' = t
                   /\ UNCHANGED <<mode, disk, file, startMode, pc, cmd, buf, psn, datalen, nz,
                                  lastId, lastData>>
              ELSE IF Len(kept) # 2
              THEN /\ nz' = kept
                   /\ rbuf' = <<>>
                   /\ io' = t
                   /\ UNCHANGED <<mode, disk, file, startMode, pc, cmd, buf, psn, datalen,
                                  lastId, lastData>>
              ELSE IF kept = <<B_Z, B_Z>>
              THEN /\ pc' = "op_cmd"
                   /\ nz' = <<>>
                   /\ rbuf' = <<>>
                   /\ io' = t
                   /\ UNCHANGED <<mode, disk, file, startMode, cmd, buf, psn, datalen,
                                  lastId, lastData>>
              ELSE Fail(t)

\* handle_op_mode_request: cmd = read_single
OpReadCmd ==
    /\ pc = "op_cmd"
    /\ \E b \in OpCmdBytes :
        /\ cmd' = b
        /\ pc' = "op_datalen"
        /\ io' = Log(io, "r", <<b>>)
    /\ UNCHANGED <<mode, disk, file, startMode, buf, psn, rbuf, datalen, nz, lastId, lastData>>

\* (a match that also requires the checksum byte to equal cmd + datalen)
OpDispatch_Checked(c, t) ==
    IF c = OP_CMD_FDC /\ BytesRead(t)[Len(BytesRead(t))] = (c + datalen) % 256
    THEN /\ mode' = "Fdc"
         /\ Return(t)
         /\ UNCHANGED <<disk, file, startMode, lastId, lastData>>
    ELSE Fail(t)

\* The match on cmd that ends handle_op_mode_request.
OpDispatch(c, t) ==
    IF c = OP_CMD_FDC
    THEN /\ mode' = "Fdc"
         /\ Return(t)
         /\ UNCHANGED <<disk, file, startMode, lastId, lastData>>
    ELSE Fail(t)

\* handle_op_mode_request: datalen = read_single; read_exact of no byte
\* returns at once.
OpReadDatalen ==
    /\ pc = "op_datalen"
    /\ \E b \in 0..MaxDataLen :
        /\ datalen' = b
        /\ rbuf' = <<>>
        /\ pc' = IF b = 0 THEN "op_checksum" ELSE "op_data"
        /\ io' = Log(io, "r", <<b>>)
    /\ UNCHANGED <<mode, disk, file, startMode, cmd, buf, psn, nz, lastId, lastData>>

\* handle_op_mode_request: read_exact(&mut data)
OpReadData ==
    /\ pc = "op_data"
    /\ \E b \in OpDataBytes :
        /\ rbuf' = Append(rbuf, b)
        /\ pc' = IF Len(rbuf) + 1 = datalen THEN "op_checksum" ELSE "op_data"
        /\ io' = Log(io, "r", <<b>>)
    /\ UNCHANGED <<mode, disk, file, startMode, cmd, buf, psn, datalen, nz, lastId, lastData>>

\* handle_op_mode_request: expected_checksum = read_single, then the match.
OpReadChecksum ==
    /\ pc = "op_checksum"
    /\ \E b \in ChecksumBytes : OpDispatch(cmd, Log(io, "r", <<b>>))

\* step_fdc: cmd = read_single, then the match.
StepFdc ==
    /\ pc = "step_fdc"
    /\ \E b \in FdcCmdBytes :
        LET t == Log(io, "r", <<b>>)
        IN IF b = B_CR
           THEN Return(t) /\ UNCHANGED <<mode, disk, file, startMode, lastId, lastData>>
           ELSE IF b = B_Z
           THEN /\ pc' = "fdc_zz"
                /\ io' = t
                /\ UNCHANGED <<mode, disk, file, startMode, locals, lastId, lastData>>
           ELSE IF b \in {B_A, B_S, B_B, B_C, B_W, B_X, B_R}
           THEN /\ pc' = "args"
                /\ cmd' = b
                /\ buf' = <<>>
                /\ io' = t
                /\ UNCHANGED <<mode, disk, file, startMode, psn, rbuf, datalen, nz,
                               lastId, lastData>>
           ELSE Fail(t)

\* (the request handled without leaving Fdc mode)
FdcOpModeRequest_StaysFdc ==
    /\ pc = "fdc_zz"
    /\ \E b \in HandshakeBytes :
        LET t == Log(io, "r", <<b>>)
        IN IF b = B_Z
           THEN /\ pc' = "op_cmd"
                /\ io' = t
                /\ UNCHANGED <<mode, disk, file, startMode, locals, lastId, lastData>>
           ELSE Fail(t)

\* (the request answered by the mode switch alone, without the handshake)
FdcOpModeRequest_SwitchOnly ==
    /\ pc = "fdc_zz"
    /\ \E b \in HandshakeBytes :
        LET t == Log(io, "r", <<b>>)
        IN IF b = B_Z
           THEN /\ mode' = "Op"
                /\ Return(t)
                /\ UNCHANGED <<disk, file, startMode, lastId, lastData>>
           ELSE Fail(t)

\* fdc_op_mode_request: the second byte must be Z; then mode = Op and
\* handle_op_mode_request runs in the same transaction.
FdcOpModeRequest ==
    /\ pc = "fdc_zz"
    /\ \E b \in HandshakeBytes :
        LET t == Log(io, "r", <<b>>)
        IN IF b = B_Z
           THEN /\ mode' = "Op"
                /\ pc' = "op_cmd"
                /\ io' = t
                /\ UNCHANGED <<disk, file, startMode, locals, lastId, lastData>>
           ELSE Fail(t)

\* The argument line received so far (the bytes after the command byte).
LineSoFar == Tail(io[1].bytes)

\* The argument line of a transcript whose first run of bytes read is a
\* command byte, the line and the closing \r.
ArgLine(t) == SubSeq(t[1].bytes, 2, Len(t[1].bytes) - 1)

HostMaySend(b) ==
    \E l \in HostLines : IsPrefix(Append(LineSoFar, b), Append(l, B_CR))

\* (a loop that keeps the spaces)
ReadFdcArgs_KeepSpaces ==
    /\ pc = "args"
    /\ \E b \in LineBytes \ {B_CR} :
        /\ HostMaySend(b)
        /\ buf' = Append(buf, b)
        /\ io' = Log(io, "r", <<b>>)
    /\ UNCHANGED <<mode, disk, file, startMode, pc, cmd, psn, rbuf, datalen, nz, lastId, lastData>>

\* read_fdc_args: one turn of the loop for a byte other than \r.
ReadFdcArgs ==
    /\ pc = "args"
    /\ \E b \in LineBytes \ {B_CR} :
        /\ HostMaySend(b)
        /\ buf' = IF b = B_SP THEN buf ELSE Append(buf, b)
        /\ io' = Log(io, "r", <<b>>)
    /\ UNCHANGED <<mode, disk, file, startMode, pc, cmd, psn, rbuf, datalen, nz, lastId, lastData>>

\* read_fdc_args reads the closing \r and returns; parse_psn_lsn; the first
\* status reply is written; the handler goes on at `next`.
ParseAndReply(next) ==
    /\ HostMaySend(B_CR)
    /\ LET t == Log(io, "r", <<B_CR>>)
           r == parse_psn_lsn(ParsedArgs(buf))
       IN IF r.ok
          THEN /\ psn' = r.psn
               /\ io' = Log(t, "w", StatusReply(r.psn))
               /\ pc' = next
               /\ buf' = <<>>
               /\ rbuf' = <<>>
               /\ UNCHANGED <<mode, disk, file, startMode, cmd, datalen, nz, lastId, lastData>>
          ELSE Fail(t)

\* A byte of a read_exact of n bytes, drawn from what the host sends.
Receives(b, n, sent) ==
    /\ Len(rbuf) < n
    /\ \E x \in sent : IsPrefix(Append(rbuf, b), x)

\* read_exact has not filled its buffer yet.
KeepReading(b) ==
    /\ rbuf' = Append(rbuf, b)
    /\ io' = Log(io, "r", <<b>>)
    /\ UNCHANGED <<mode, disk, file, startMode, pc, cmd, buf, psn, datalen, nz, lastId, lastData>>

\* fdc_read_id_section
FdcReadIdSection ==
    /\ cmd = B_A
    /\ \/ pc = "args" /\ ParseAndReply("wait")
       \/ /\ pc = "wait"
          /\ \E b \in HandshakeBytes :
              LET t == Log(io, "r", <<b>>)
              IN IF b = B_CR
                 THEN /\ Return(Log(t, "w", disk[psn].id))
                      /\ UNCHANGED <<mode, disk, file, startMode, lastId, lastData>>
                 ELSE Fail(t)

\* fdc_read_sector
FdcReadSector ==
    /\ cmd = B_R
    /\ \/ pc = "args" /\ ParseAndReply("wait")
       \/ /\ pc = "wait"
          /\ \E b \in HandshakeBytes :
              LET t == Log(io, "r", <<b>>)
              IN IF b = B_CR
                 THEN /\ Return(Log(t, "w", disk[psn].data))
                      /\ UNCHANGED <<mode, disk, file, startMode, lastId, lastData>>
                 ELSE Fail(t)

\* The reply that ends fdc_search_id_section.
SearchReply(d, target) ==
    IF Position(d, target) = Err THEN SearchMiss
    ELSE StatusReply(Position(d, target))

\* fdc_search_id_section
FdcSearchIdSection ==
    /\ cmd = B_S
    /\ \/ /\ pc = "args"
          /\ HostMaySend(B_CR)
          /\ LET t == Log(io, "r", <<B_CR>>)
             IN IF NoArgs(ParsedArgs(buf))
                THEN /\ io' = Log(t, "w", SearchReady)
                     /\ pc' = "rx"
                     /\ buf' = <<>>
                     /\ rbuf' = <<>>
                     /\ UNCHANGED <<mode, disk, file, startMode, cmd, psn, datalen, nz,
                                    lastId, lastData>>
                ELSE Fail(t)
       \/ /\ pc = "rx"
          /\ \E b \in 0..255 :
              /\ Receives(b, SECTOR_ID_LEN, HostIds)
              /\ IF Len(rbuf) + 1 < SECTOR_ID_LEN
                 THEN KeepReading(b)
                 ELSE /\ Return(Log(Log(io, "r", <<b>>), "w",
                                    SearchReply(disk, Append(rbuf, b))))
                      /\ UNCHANGED <<mode, disk, file, startMode, lastId, lastData>>

\* fdc_write_id_section
FdcWriteIdSection ==
    /\ cmd \in {B_B, B_C}
    /\ \/ pc = "args" /\ ParseAndReply("rx")
       \/ /\ pc = "rx"
          /\ \E b \in 0..255 :
              /\ Receives(b, SECTOR_ID_LEN, HostIds)
              /\ IF Len(rbuf) + 1 < SECTOR_ID_LEN
                 THEN KeepReading(b)
                 ELSE /\ disk' = StoreId(disk, psn, Append(rbuf, b))
                      /\ Return(Log(Log(io, "r", <<b>>), "w", StatusReply(psn)))
                      /\ lastId' = [lastId EXCEPT ![HostLinePsn(ArgLine(io))] = io'[3].bytes]
                      /\ UNCHANGED <<mode, file, startMode, lastData>>

\* fdc_write_sector
FdcWriteSector ==
    /\ cmd \in {B_W, B_X}
    /\ \/ pc = "args" /\ ParseAndReply("rx")
       \/ /\ pc = "rx"
          /\ \E b \in 0..255 :
              /\ Receives(b, SECTOR_DATA_LEN, HostData)
              /\ IF Len(rbuf) + 1 < SECTOR_DATA_LEN
                 THEN KeepReading(b)
                 ELSE /\ disk' = StoreData(disk, psn, Append(rbuf, b))
                      /\ Return(Log(Log(io, "r", <<b>>), "w", StatusReply(psn)))
                      /\ lastData' = [lastData EXCEPT ![HostLinePsn(ArgLine(io))] = io'[3].bytes]
                      /\ UNCHANGED <<mode, file, startMode, lastId>>

\* run, after step returned Ok: Disk::save begins, File::create truncates
\* the file.
SaveCreate ==
    /\ pc = "done"
    /\ pc' = "save"
    /\ file' = [exists |-> TRUE, recs |-> <<>>]
    /\ io' = <<>>
    /\ UNCHANGED <<mode, disk, startMode, locals, lastId, lastData>>

\* Disk::save: one turn of the loop over the sectors, written through the
\* BufWriter.
SaveWrite ==
    /\ pc = "save"
    /\ Len(file.recs) < SECTOR_COUNT
    /\ file' = [file EXCEPT !.recs = Append(@, disk[Len(@)])]
    /\ UNCHANGED <<mode, disk, startMode, pc, locals, io, lastId, lastData>>

\* What the file holds when the BufWriter's last flush, the one its drop
\* does, fails: the tail still in the buffer (at least the last sector's
\* body) is missing.
Unflushed(f) == [f EXCEPT !.recs = SubSeq(@, 1, Len(@) - 1)]

\* Disk::save returns Ok(()) and run loops.  save does not flush: the
\* BufWriter is flushed when it is dropped, and drop ignores an error.
SaveReturn ==
    /\ pc = "save"
    /\ Len(file.recs) = SECTOR_COUNT
    /\ pc' = "step"
    /\ file' \in {file, Unflushed(file)}
    /\ UNCHANGED <<mode, disk, startMode, locals, io, lastId, lastData>>

\* Any read or write of the port, and any file operation of save, can
\* return an I/O error (the read timeout among them): run returns it.
IoError ==
    /\ pc \in {"step_op", "op_cmd", "op_datalen", "op_data", "op_checksum",
               "step_fdc", "fdc_zz", "args", "wait", "rx", "done", "save"}
    /\ Fail(io)

Next ==
    \/ Step /\ UNCHANGED kh
    \/ StepOp /\ UNCHANGED kh
    \/ OpReadCmd /\ UNCHANGED kh
    \/ OpReadDatalen /\ UNCHANGED kh
    \/ OpReadData /\ UNCHANGED kh
    \/ OpReadChecksum /\ UNCHANGED kh
    \/ StepFdc /\ UNCHANGED kh
    \/ FdcOpModeRequest /\ UNCHANGED kh
    \/ ReadFdcArgs /\ UNCHANGED kh
    \/ FdcReadIdSection /\ UNCHANGED kh
    \/ FdcReadSector /\ UNCHANGED kh
    \/ FdcSearchIdSection /\ UNCHANGED kh
    \/ FdcWriteIdSection /\ UNCHANGED kh
    \/ FdcWriteSector /\ UNCHANGED kh
    \/ SaveCreate /\ UNCHANGED kh
    \/ SaveWrite /\ UNCHANGED kh
    \/ SaveReturn /\ UNCHANGED kh
    \/ IoError /\ UNCHANGED kh

Spec == Init /\ [][Next]_vars

\* --------------------------------------------------------------------------
\* What the wire shows: the claims below are stated on the transcript io of
\* the transaction (the bytes the host sent and the bytes the engine wrote),
\* on the mode, the disk and the file.

NoWrites(t) == \A i \in 1..Len(t) : t[i].dir = "r"

\* The index in bs of the n-th non-zero byte, 0 when there is none.
RECURSIVE NthNonzero(_, _, _)
NthNonzero(bs, n, at) ==
    IF at > Len(bs) THEN 0
    ELSE IF bs[at] # 0
         THEN (IF n = 1 THEN at ELSE NthNonzero(bs, n - 1, at + 1))
         ELSE NthNonzero(bs, n, at + 1)

\* The host's bytes bs are a whole Op request: a preamble that ends with the
\* second non-zero byte, both 5A, then cmd, datalen, datalen bytes, checksum.
IsOpRequest(bs) ==
    LET k == NthNonzero(bs, 2, 1)
    IN /\ k > 0
       /\ bs[NthNonzero(bs, 1, 1)] = 90 /\ bs[k] = 90
       /\ Len(bs) >= k + 2
       /\ Len(bs) = k + 2 + bs[k + 2] + 1

OpRequestCmd(bs) == bs[NthNonzero(bs, 2, 1) + 1]
OpRequestDatalen(bs) == bs[NthNonzero(bs, 2, 1) + 2]
OpRequestChecksum(bs) == bs[Len(bs)]

\* C1: the engine starts in Op mode; the step that reads the last byte of an
\* Op request (5A 5A cmd datalen data checksum) leaves the engine in Fdc
\* mode with the transaction completed if cmd is 08, and ends the session,
\* not in Fdc mode, for any other cmd, whatever datalen, data and checksum
\* are; the engine has written nothing in the transaction.
C1_OpTransaction ==
    /\ mode = "Op"
    /\ [][ (mode = "Op" /\ ~IsOpRequest(BytesRead(io)) /\ IsOpRequest(BytesRead(io')))
           => /\ NoWrites(io')
              /\ OpRequestCmd(BytesRead(io')) = 8 => (mode' = "Fdc" /\ pc' = "done")
              /\ OpRequestCmd(BytesRead(io')) # 8 => (mode' = "Op" /\ pc' = "failed")
         ]_vars

\* An Op request with idle bytes in the preamble, two data bytes and a
\* checksum that matches nothing has switched the engine to Fdc mode.
C1_Witness ==
    /\ pc = "done"
    /\ mode = "Fdc"
    /\ io = << [dir |-> "r", bytes |-> <<0, 90, 0, 90, 8, 2, 90, 0, 0>>] >>

\* An Op request with another cmd has ended the session.
C1_WitnessFatal ==
    /\ pc = "failed"
    /\ IsOpRequest(BytesRead(io))
    /\ OpRequestCmd(BytesRead(io)) = 90

\* The digits 0..9, A..F and the 8-character success status of sector p.
UpperHex == <<48, 49, 50, 51, 52, 53, 54, 55, 56, 57, 65, 66, 67, 68, 69, 70>>

SuccessStatus(p) ==
    <<48, 48, UpperHex[(p \div 16) + 1], UpperHex[(p % 16) + 1], 48, 48, 48, 48>>

\* The transaction in progress began in Fdc mode with command byte c.
FdcTx(t, c) == t # <<>> /\ t[1].dir = "r" /\ t[1].bytes[1] = c

\* ... and the host has sent the whole argument line, \r included.
HasLine(t) ==
    /\ t # <<>>
    /\ Len(t[1].bytes) >= 2
    /\ t[1].bytes[Len(t[1].bytes)] = 13

\* A command c whose line means sector p, whatever its second field.
AddressesAnyLsn(t, c, p) ==
    /\ mode = "Fdc"
    /\ FdcTx(t, c)
    /\ HasLine(t)
    /\ HostLinePsn(ArgLine(t)) = p

\* A command c whose line means sector p, with a second field, if it has
\* one, that fits a byte.
Addresses(t, c, p) ==
    /\ AddressesAnyLsn(t, c, p)
    /\ HostLineLsn(ArgLine(t)) <= 255

\* The shape of a write transaction (W, X with n = SECTOR_DATA_LEN; B, C
\* with n = SECTOR_ID_LEN) on sector p: the status, at most n bytes read,
\* and the status again as soon as the n-th has been read.
WriteShape(t, p, n) ==
    /\ Len(t) \in 2..4
    /\ t[2] = [dir |-> "w", bytes |-> SuccessStatus(p)]
    /\ Len(t) >= 3 => t[3].dir = "r"
    /\ Len(t) = 3 => Len(t[3].bytes) < n
    /\ Len(t) = 4 => /\ Len(t[3].bytes) = n
                     /\ t[4] = [dir |-> "w", bytes |-> SuccessStatus(p)]

\* The shape of a read transaction (R, A) on sector p: the status, one byte
\* read, and, only if that byte is \r, n bytes written.
ReadShape(t, p, n) ==
    /\ Len(t) \in 2..4
    /\ t[2] = [dir |-> "w", bytes |-> SuccessStatus(p)]
    /\ Len(t) >= 3 => t[3].dir = "r" /\ Len(t[3].bytes) = 1
    /\ Len(t) = 3 => (t[3].bytes # <<13>> /\ pc = "failed")
    /\ Len(t) = 4 => /\ t[3].bytes = <<13>>
                     /\ t[4].dir = "w"
                     /\ Len(t[4].bytes) = n

C2_Shape ==
    \A c \in {87, 88} : \A p \in 0..79 :
        Addresses(io, c, p) =>
            /\ WriteShape(io, p, SECTOR_DATA_LEN)
            /\ Len(io) = 4 => (disk[p].data = io[3].bytes /\ pc \in {"done", "failed"})
            /\ pc = "done" => Len(io) = 4

C2_Store ==
    \A c \in {87, 88} :
        (FdcTx(io', c) /\ mode = "Fdc" /\ disk' # disk)
        => /\ Len(io) = 3
           /\ io[2].dir = "w"
           /\ Len(io'[3].bytes) = SECTOR_DATA_LEN

C3_Shape ==
    \A p \in 0..79 :
        Addresses(io, 82, p) =>
            /\ ReadShape(io, p, SECTOR_DATA_LEN)
            /\ Len(io) = 4 => (io[4].bytes = disk[p].data /\ io[4].bytes = lastData[p])
            /\ pc = "done" => Len(io) = 4

C3_Frame == (FdcTx(io', 82) /\ mode = "Fdc") => disk' = disk

C3_WitnessFresh ==
    /\ pc = "done"
    /\ FdcTx(io, 82)
    /\ ArgLine(io) = <<>>
    /\ Len(io) = 4
    /\ io[4].bytes = Zeros(SECTOR_DATA_LEN)

C4_Shape ==
    \A c \in {66, 67} : \A p \in 0..79 :
        Addresses(io, c, p) =>
            /\ WriteShape(io, p, SECTOR_ID_LEN)
            /\ Len(io) = 4 => (disk[p].id = io[3].bytes /\ pc \in {"done", "failed"})
            /\ pc = "done" => Len(io) = 4

C5_Shape ==
    \A p \in 0..79 :
        Addresses(io, 65, p) =>
            /\ ReadShape(io, p, SECTOR_ID_LEN)
            /\ Len(io) = 4 => (io[4].bytes = disk[p].id /\ io[4].bytes = lastId[p])
            /\ pc = "done" => Len(io) = 4

IsSearchAnswer(d, target, reply) ==
    /\ \A i \in 0..79 :
        (d[i].id = target /\ \A j \in 0..(i - 1) : d[j].id # target)
            => reply = SuccessStatus(i)
    /\ (\A i \in 0..79 : d[i].id # target)
            => reply = <<52, 48, 48, 48, 48, 48, 48, 48>>

C6_Shape ==
    (mode = "Fdc" /\ FdcTx(io, 83) /\ HasLine(io) /\ ArgLine(io) = <<>>) =>
        /\ Len(io) \in 2..4
        /\ io[2] = [dir |-> "w", bytes |-> <<48, 48, 48, 48, 48, 48, 48, 48>>]
        /\ Len(io) >= 3 => io[3].dir = "r"
        /\ Len(io) = 3 => Len(io[3].bytes) < SECTOR_ID_LEN
        /\ Len(io) = 4 => /\ Len(io[3].bytes) = SECTOR_ID_LEN
                          /\ io[4].dir = "w"
                          /\ IsSearchAnswer(disk, io[3].bytes, io[4].bytes)
        /\ pc = "done" => Len(io) = 4

\* C6: an S transaction with an empty argument line shows "00000000"
\* written, exactly SECTOR_ID_LEN target bytes read, and one status written:
\* that of the smallest index whose identifier equals the target, or
\* "40000000" when no identifier equals it.
C6_SearchId == [](C6_Shape)

\* A hit on sector 7 (the spec's scenario 4) although sector 79 carries the
\* same identifier.
C6_Witness ==
    /\ pc = "done"
    /\ FdcTx(io, 83)
    /\ Len(io) = 4
    /\ io[3].bytes = Ramp(SECTOR_ID_LEN)
    /\ io[4].bytes = <<48, 48, 48, 55, 48, 48, 48, 48>>
    /\ disk[7].id = Ramp(SECTOR_ID_LEN)
    /\ disk[79].id = Ramp(SECTOR_ID_LEN)

\* A miss.
C6_WitnessMiss ==
    /\ pc = "done"
    /\ FdcTx(io, 83)
    /\ Len(io) = 4
    /\ io[4].bytes = <<52, 48, 48, 48, 48, 48, 48, 48>>

\* The file holds all the records and differs from the disk d by what one
\* transaction can have done: one field of one sector.
LagsByOne(f, d) ==
    /\ Len(f) = 80
    /\ \E p \in 0..79 :
        /\ \A q \in 0..79 : q # p => f[q + 1] = d[q]
        /\ f[p + 1].id = d[p].id \/ f[p + 1].data = d[p].data

C7_Boundary == pc' = "step" => (file'.exists /\ file'.recs = Image(disk'))

C7_Lag == file.exists => LagsByOne(file.recs, disk)

\* C7: every step that brings the engine to a transaction boundary (every
\* boundary but the first) leaves the file's 80 records equal to the disk in
\* memory, and at any moment the file, once there is one, is behind the disk
\* in memory by the effects of at most one transaction.
C7_Persistence == [][C7_Boundary]_vars /\ [](C7_Lag)

\* The host's line means a sector number of 80 or more, for a command that
\* takes one.
OutOfRange(t) ==
    \E c \in {65, 66, 67, 87, 88, 82} :
        /\ startMode = "Fdc"
        /\ FdcTx(t, c)
        /\ HasLine(t)
        /\ HostLinePsn(ArgLine(t)) >= 80

C8_Rejected == OutOfRange(io) => (pc = "failed" /\ Len(io) = 1)

C8_Untouched ==
    /\ pc # "failed"
    /\ OutOfRange(io') => (disk' = disk /\ file' = file)
    /\ \A c \in {65, 66, 67, 87, 88, 82} :
        (startMode' = "Fdc" /\ FdcTx(io', c) /\ Len(io') = 1) => disk' = disk

\* C8: for A, B, C, W, X and R, once the host has sent a line whose first
\* field is 80 or more the session has ended; the transcript holds the
\* command line and nothing else (no status written, no handshake or payload
\* byte read); no step of the transaction up to the rejection has changed the
\* disk, the rejection leaves disk and file as they are, and nothing happens
\* after it.
C8_OutOfRangePsn == [](C8_Rejected) /\ [][C8_Untouched]_vars

\* "W80\r" on a disk that holds data: rejected.
C8_Witness ==
    /\ pc = "failed"
    /\ io = << [dir |-> "r", bytes |-> <<87, 56, 48, 13>>] >>
    /\ disk[79].data = Ramp(SECTOR_DATA_LEN)

\* "A256\r": rejected.
C8_WitnessOverflow ==
    /\ pc = "failed"
    /\ io = << [dir |-> "r", bytes |-> <<65, 50, 53, 54, 13>>] >>

FdcCommandBytes == {13, 90, 65, 83, 66, 67, 87, 88, 82}

UnknownCommand(t) ==
    t # <<>> /\ t[1].dir = "r" /\ t[1].bytes[1] \notin FdcCommandBytes

LoneZ(t) == FdcTx(t, 90) /\ Len(t[1].bytes) >= 2 /\ t[1].bytes[2] # 90

BadHandshake(t) ==
    (FdcTx(t, 65) \/ FdcTx(t, 82)) /\ Len(t) >= 3 /\ t[3].bytes[1] # 13

SearchWithArgs(t) ==
    FdcTx(t, 83) /\ HasLine(t) /\ \E i \in 1..Len(ArgLine(t)) : ArgLine(t)[i] # 32

C9_Fatal ==
    startMode = "Fdc" =>
        /\ UnknownCommand(io) => (pc = "failed" /\ Len(io) = 1 /\ Len(io[1].bytes) = 1)
        /\ LoneZ(io) => (pc = "failed" /\ Len(io) = 1 /\ Len(io[1].bytes) = 2)
        /\ BadHandshake(io) => (pc = "failed" /\ Len(io) = 3 /\ Len(io[3].bytes) = 1)
        /\ SearchWithArgs(io) => (pc = "failed" /\ Len(io) = 1)

C9_Final ==
    /\ pc # "failed"
    /\ pc' = "failed" => (disk' = disk /\ file' = file)

\* C9: in a transaction begun in Fdc mode, an unknown command byte, a Z not
\* followed by a Z, a handshake byte other than \r after the status of A or
\* R, and an argument line for S that holds anything but spaces each end the
\* session with the offending byte (the line's \r for S) the last thing in
\* the transcript: nothing is written in answer; the step that ends the
\* session changes neither disk nor file, and no step follows it.
C9_ProtocolViolation == [](C9_Fatal) /\ [][C9_Final]_vars

\* "A 79\r", the status, and a handshake byte that is not \r.
C9_Witness ==
    /\ pc = "failed"
    /\ io = << [dir |-> "r", bytes |-> <<65, 32, 55, 57, 13>>],
               [dir |-> "w", bytes |-> <<48, 48, 52, 70, 48, 48, 48, 48>>],
               [dir |-> "r", bytes |-> <<90>>] >>

\* "S 79\r".
C9_WitnessSearch ==
    /\ pc = "failed"
    /\ io = << [dir |-> "r", bytes |-> <<83, 32, 55, 57, 13>>] >>

\* An unknown command byte; a Z followed by \r.
C9_WitnessUnknown ==
    /\ pc = "failed"
    /\ startMode = "Fdc"
    /\ io = << [dir |-> "r", bytes |-> <<81>>] >>

C9_WitnessLoneZ ==
    /\ pc = "failed"
    /\ startMode = "Fdc"
    /\ io = << [dir |-> "r", bytes |-> <<90, 13>>] >>

\* The transaction in progress began in Fdc mode with ZZ.
BackToOp(t) ==
    /\ startMode = "Fdc"
    /\ FdcTx(t, 90)
    /\ Len(t[1].bytes) >= 2
    /\ t[1].bytes[2] = 90

C10_Through ==
    BackToOp(io) =>
        /\ NoWrites(io)
        /\ (~IsOpRequest(BytesRead(io)) /\ pc # "failed")
               => (mode = "Op" /\ pc \in {"op_cmd", "op_datalen", "op_data", "op_checksum"})
        /\ (IsOpRequest(BytesRead(io)) /\ OpRequestCmd(BytesRead(io)) = 8)
               => mode = "Fdc"

C10_Completes ==
    /\ BackToOp(io') => disk' = disk
    /\ (BackToOp(io') /\ ~IsOpRequest(BytesRead(io)) /\ IsOpRequest(BytesRead(io'))
            /\ OpRequestCmd(BytesRead(io')) = 8)
        => (pc' = "done" /\ mode' = "Fdc")

\* C10: a transaction begun in Fdc mode with 5A 5A puts the engine in Op
\* mode, where it stays while it reads cmd, datalen, the data and the
\* checksum without a save in between; the step that reads the checksum of a
\* request with cmd 08 (5A 5A 08 00 08 among them) completes the transaction
\* in Fdc mode; the engine writes nothing and no step of it changes the disk.
C10_BackToOp == [](C10_Through) /\ [][C10_Completes]_vars

\* 5A 5A 08 00 08 in Fdc mode, on a disk that holds data.
C10_Witness ==
    /\ pc = "done"
    /\ startMode = "Fdc"
    /\ mode = "Fdc"
    /\ io = << [dir |-> "r", bytes |-> <<90, 90, 8, 0, 8>>] >>
    /\ disk[79].data = Ramp(SECTOR_DATA_LEN)

\* ... and on its way, in Op mode.
C10_WitnessThrough ==
    /\ pc = "op_checksum"
    /\ startMode = "Fdc"
    /\ mode = "Op"
    /\ io = << [dir |-> "r", bytes |-> <<90, 90, 8, 0>>] >>

\* What a transaction on sector p shows, by its command byte alone.
C11_Shape ==
    \A p \in 0..79 :
        /\ \A c \in {87, 88} :
            AddressesAnyLsn(io, c, p) =>
                /\ WriteShape(io, p, SECTOR_DATA_LEN)
                /\ Len(io) = 4 => disk[p].data = io[3].bytes
        /\ \A c \in {66, 67} :
            AddressesAnyLsn(io, c, p) =>
                /\ WriteShape(io, p, SECTOR_ID_LEN)
                /\ Len(io) = 4 => disk[p].id = io[3].bytes
        /\ AddressesAnyLsn(io, 82, p) =>
                /\ ReadShape(io, p, SECTOR_DATA_LEN)
                /\ Len(io) = 4 => io[4].bytes = disk[p].data
        /\ AddressesAnyLsn(io, 65, p) =>
                /\ ReadShape(io, p, SECTOR_ID_LEN)
                /\ Len(io) = 4 => io[4].bytes = disk[p].id

C12_Sectors == DOMAIN disk = 0..79

C12_Frame ==
    \A q \in 0..79 :
        /\ disk'[q].id # disk[q].id =>
                /\ startMode = "Fdc" /\ pc' = "done"
                /\ FdcTx(io', 66) \/ FdcTx(io', 67)
                /\ q = HostLinePsn(ArgLine(io'))
        /\ disk'[q].data # disk[q].data =>
                /\ startMode = "Fdc" /\ pc' = "done"
                /\ FdcTx(io', 87) \/ FdcTx(io', 88)
                /\ q = HostLinePsn(ArgLine(io'))

\* C12: the disk always has the 80 sectors 0..79; an identifier changes only
\* in the step that completes a B or C transaction, and then only that of the
\* sector the line names; a data body changes only in the step that completes
\* a W or X transaction, and then only that of the sector the line names; so
\* W and X leave every identifier, B and C every data body, and \r, A, R, S
\* and the ZZ mode switch every identifier and every data body as they were.
C12_SectorFrame == [](C12_Sectors) /\ [][C12_Frame]_vars

\* "W 79\r" completed on a disk whose sector 79 had been given an identifier
\* and whose sector 7 holds data: both are still there.
C12_Witness ==
    /\ pc = "done"
    /\ FdcTx(io, 87)
    /\ Len(io) = 4
    /\ ArgLine(io) = <<32, 55, 57>>
    /\ disk[79] = [id |-> Ramp(SECTOR_ID_LEN), data |-> Ramp(SECTOR_DATA_LEN)]
    /\ disk[7] = [id |-> Ramp(SECTOR_ID_LEN), data |-> Ramp(SECTOR_DATA_LEN)]
    /\ disk[0] = EMPTY

\* --------------------------------------------------------------------------
\* The nibble, BCD and bit utilities (src/src/nibble.rs, src/src/util.rs).  A
\* nibble is an integer 0..15, a bit a BOOLEAN.

\* The widest bitmap and the tallest bitmap the body codec is given below.
MaxWidth == 9
MaxHeight == 3

Reverse(s) == [i \in 1..Len(s) |-> s[Len(s) + 1 - i]]

Falses(n) == [i \in 1..n |-> FALSE]

\* Nibble::divide_byte
divide_byte(v) == <<v \div 16, v % 16>>

\* Nibble::combine_nibbles: (n1 << 4) | n2 on u8
combine_nibbles(n1, n2) == ((n1 * 16) % 256) + n2

\* util::nibble_bits
nibble_bits(ns) ==
    [i \in 1..(4 * Len(ns)) |->
        LET src == ns[((i - 1) \div 4) + 1]
        IN CASE (i - 1) % 4 = 0 -> (src \div 8) % 2 # 0
             [] (i - 1) % 4 = 1 -> (src \div 4) % 2 # 0
             [] (i - 1) % 4 = 2 -> (src \div 2) % 2 # 0
             [] OTHER -> src % 2 # 0]

\* util::to_nibbles
to_nibbles(bs) ==
    [i \in 1..(2 * Len(bs)) |-> divide_byte(bs[(i + 1) \div 2])[2 - (i % 2)]]

\* util::from_nibbles; the caller has checked that Len(ns) is even (the
\* function asserts it).
from_nibbles(ns) ==
    [i \in 1..(Len(ns) \div 2) |-> combine_nibbles(ns[2 * i - 1], ns[2 * i])]

\* util::from_bcd: the loop over the nibbles, last one first, on u16.
RECURSIVE from_bcd_loop(_, _, _, _)
from_bcd_loop(ns, i, sum, m) ==
    IF i = 0 THEN sum
    ELSE from_bcd_loop(ns, i - 1, (sum + ns[i] * m) % 65536, (m * 10) % 65536)

from_bcd(ns) == from_bcd_loop(ns, Len(ns), 0, 1)

\* util::from_bcd overflows a u16 in `u16::from(n) * m`, in `s += ..` or in
\* `m *= 10`: a panic where overflow is checked, the wrapped value (the one
\* from_bcd gives) where it is not.
RECURSIVE from_bcd_loop_overflows(_, _, _, _)
from_bcd_loop_overflows(ns, i, sum, m) ==
    IF i = 0 THEN FALSE
    ELSE \/ ns[i] * m > 65535
         \/ sum + ns[i] * m > 65535
         \/ m * 10 > 65535
         \/ from_bcd_loop_overflows(ns, i - 1, sum + ns[i] * m, m * 10)

from_bcd_overflows(ns) == from_bcd_loop_overflows(ns, Len(ns), 0, 1)

\* util::to_bcd: the digits of n, least significant first, as the first loop
\* pushes them; then the zero nibbles up to min_width; then the reversal.
RECURSIVE to_bcd_digits(_)
to_bcd_digits(n) ==
    IF n = 0 THEN <<>> ELSE <<n % 10>> \o to_bcd_digits(n \div 10)

to_bcd(n, min_width) ==
    LET ds == to_bcd_digits(n)
    IN Reverse(IF Len(ds) < min_width
               THEN ds \o [i \in 1..(min_width - Len(ds)) |-> 0]
               ELSE ds)

\* util::bits_to_bytes; the caller has checked that Len(bits) is a multiple
\* of 8 (the function asserts it).
bits_to_bytes(bits) ==
    [j \in 1..(Len(bits) \div 8) |->
        LET b(k) == IF bits[8 * (j - 1) + k] THEN 1 ELSE 0
        IN 128 * b(1) + 64 * b(2) + 32 * b(3) + 16 * b(4)
           + 8 * b(5) + 4 * b(6) + 2 * b(7) + b(8)]

\* util::padding
padding(n, alignment) == (alignment - (n % alignment)) % alignment

\* --------------------------------------------------------------------------
\* The pattern body codec (src/src/kh940.rs).  A Pattern is
\* [number, rows, height, width, memo].

\* kh940::memo_size
memo_size(height) ==
    IF height % 2 = 0 THEN height \div 2 ELSE (height \div 2) + 1

\* kh940::pattern_data_sizes; (width / 4.0).ceil() is exact on these values.
pattern_data_sizes(width, height) ==
    LET row_nibbles == (width + 3) \div 4
    IN [row_nibbles |-> row_nibbles,
        row_pad_bits |-> padding(width, 4),
        initial_padding |-> padding(row_nibbles * height, 2)]

\* Pattern::from_memory_dump: pattern_size,
\* ((width / 4.0).ceil() * height / 2.0).ceil()
pattern_size(width, height) == ((((width + 3) \div 4) * height) + 1) \div 2

\* (the bits of the row taken in the order they are stored)
RowOf_Unreversed(bits, row_pad_bits) == SubSeq(bits, row_pad_bits + 1, Len(bits))

\* parse_pattern_rows: bits[row_pad_bits..].iter().copied().rev().collect()
RowOf(bits, row_pad_bits) == Reverse(SubSeq(bits, row_pad_bits + 1, Len(bits)))

\* kh940::parse_pattern_rows
parse_pattern_rows(width, height, data) ==
    LET sizes == pattern_data_sizes(width, height)
        nibble_data == to_nibbles(data)
    IN [row \in 1..height |->
           LET start_index == sizes.initial_padding + sizes.row_nibbles * (row - 1)
               end_index == start_index + sizes.row_nibbles
           IN RowOf(nibble_bits(SubSeq(nibble_data, start_index + 1, end_index)),
                    sizes.row_pad_bits)]

\* Pattern::serialize_data: the loop over the rows.
RECURSIVE RowBits(_, _)
RowBits(rows, row_pad_bits) ==
    IF rows = <<>> THEN <<>>
    ELSE Falses(row_pad_bits) \o Reverse(Head(rows))
         \o RowBits(Tail(rows), row_pad_bits)

\* Pattern::serialize_data
serialize_data(p) ==
    LET sizes == pattern_data_sizes(p.width, p.height)
        bits == Falses(sizes.initial_padding * 4) \o RowBits(p.rows, sizes.row_pad_bits)
    IN bits_to_bytes(bits) \o p.memo

\* The rows a bitmap of width w is made of: blank, full, the first stitch
\* alone, the last stitch alone, every other stitch.
RowKinds(w) ==
    { [x \in 1..w |-> FALSE],
      [x \in 1..w |-> TRUE],
      [x \in 1..w |-> x = 1],
      [x \in 1..w |-> x = w],
      [x \in 1..w |-> x % 2 = 1] }

\* The memos: the zero memo Pattern::from_image makes, and a memo as a RAM
\* image carries one.
Memos(h) ==
    { [i \in 1..memo_size(h) |-> 0], [i \in 1..memo_size(h) |-> 160 + i] }

\* The commands other than emulate run no engine.
NoEmulator ==
    /\ mode = "Op" /\ startMode = "Op" /\ pc = "none"
    /\ disk = NewDisk /\ file = [exists |-> FALSE, recs |-> <<>>]
    /\ cmd = 0 /\ buf = <<>> /\ psn = 0
    /\ rbuf = <<>> /\ datalen = 0 /\ nz = <<>>
    /\ io = <<>>
    /\ lastId = <<>> /\ lastData = <<>>

\* A pattern number `n` bitmap of the given rows and memo.
NewPattern(n, rows, w, memo) ==
    [number |-> n, rows |-> rows, height |-> Len(rows), width |-> w, memo |-> memo]

InitBody ==
    /\ NoEmulator
    /\ dump = 0 /\ ms = <<>>
    /\ \E w \in 1..MaxWidth : \E h \in 1..MaxHeight :
        \E rows \in [1..h -> RowKinds(w)] : \E memo \in Memos(h) :
            pattern = NewPattern(901, rows, w, memo)
    /\ call = "new"
    /\ ret = <<>>

\* pattern.serialize_data()
SerializeData ==
    /\ call = "new"
    /\ call' = "serialize_data"
    /\ ret' = serialize_data(pattern)
    /\ UNCHANGED <<fdc, dump, ms, pattern>>

\* parse_pattern_rows(width, height, the first pattern_size bytes of the body)
ParsePatternRows ==
    /\ call = "serialize_data"
    /\ call' = "parse_pattern_rows"
    /\ ret' = parse_pattern_rows(pattern.width, pattern.height,
                  SubSeq(ret, 1, pattern_size(pattern.width, pattern.height)))
    /\ UNCHANGED <<fdc, dump, ms, pattern>>

NextBody ==
    \/ SerializeData
    \/ ParsePatternRows

SpecBody == InitBody /\ [][NextBody]_vars

\* ceil(a / b)
CeilDiv(a, b) == (a + b - 1) \div b

C19_Length ==
    call = "serialize_data" =>
        LET size == CeilDiv(CeilDiv(pattern.width, 4) * pattern.height, 2)
            memo == CeilDiv(pattern.height, 2)
        IN /\ Len(ret) = size + memo
           /\ SubSeq(ret, size + 1, size + memo) = pattern.memo
           /\ Len(pattern.memo) = memo

C19_Rows ==
    call = "parse_pattern_rows" =>
        /\ Len(ret) = pattern.height
        /\ \A y \in 1..pattern.height :
            /\ Len(ret[y]) = pattern.width
            /\ \A x \in 1..pattern.width : ret[y][x] = pattern.rows[y][x]

\* C19: for a bitmap of width 1..MaxWidth and height 1..MaxHeight with a memo
\* of ceil(height / 2) bytes, serialize_data returns
\* ceil(ceil(width / 4) * height / 2) + ceil(height / 2) bytes, the last
\* ceil(height / 2) of which are the memo; and parse_pattern_rows, given the
\* width, the height and the bytes before the memo, returns height rows of
\* width bits that are the bitmap's, bit for bit.
C19_BodyRoundTrip == C19_Length /\ C19_Rows

\* A bitmap 5 wide and 3 high (three pad bits per row, one pad nibble at the
\* start) with a stitch in its first column on one row and in its last column
\* on another has come back from the body.
C19_Witness ==
    /\ call = "parse_pattern_rows"
    /\ pattern.width = 5 /\ pattern.height = 3
    /\ pattern.rows[1] = <<TRUE, FALSE, FALSE, FALSE, FALSE>>
    /\ pattern.rows[2] = <<FALSE, FALSE, FALSE, FALSE, TRUE>>
    /\ pattern.memo = <<161, 162>>
    /\ ret = pattern.rows

\* --------------------------------------------------------------------------
\* The Disk's flat view (src/src/fdcemu.rs), as the export and import
\* commands use it.

\* The vectors given to set_flattened_data are up to MaxExtra bytes long, or
\* within MaxExtra bytes of the length of the flat view.
MaxExtra == 3

\* SECTOR_COUNT * SECTOR_DATA_LEN
FlatLen == SECTOR_COUNT * SECTOR_DATA_LEN

\* (the flat view made of whole sectors, identifier first)
flatten_data_WithIds(d) ==
    [i \in 1..(SECTOR_COUNT * (SECTOR_ID_LEN + SECTOR_DATA_LEN)) |->
        LET rec == d[(i - 1) \div (SECTOR_ID_LEN + SECTOR_DATA_LEN)].id
                   \o d[(i - 1) \div (SECTOR_ID_LEN + SECTOR_DATA_LEN)].data
        IN rec[((i - 1) % (SECTOR_ID_LEN + SECTOR_DATA_LEN)) + 1]]

\* Disk::flatten_data
flatten_data(d) ==
    [i \in 1..FlatLen |->
        d[(i - 1) \div SECTOR_DATA_LEN].data[((i - 1) % SECTOR_DATA_LEN) + 1]]

\* Vec::resize(n, 0)
Resize(data, n) == [i \in 1..n |-> IF i <= Len(data) THEN data[i] ELSE 0]

\* Disk::set_flattened_data
set_flattened_data(d, data) ==
    LET resized == Resize(data, FlatLen)
    IN [i \in 0..(SECTOR_COUNT - 1) |->
           [d[i] EXCEPT !.data = SubSeq(resized, i * SECTOR_DATA_LEN + 1,
                                        (i + 1) * SECTOR_DATA_LEN)]]

\* The vectors given to set_flattened_data: two fills, none of them zero, of
\* every length near 0 and near the length of the flat view.
FlatInputs ==
    { [i \in 1..n |-> (i % 251) + 1] :
        n \in (0..MaxExtra) \cup ((FlatLen - MaxExtra)..(FlatLen + MaxExtra)) }
    \cup
    { [i \in 1..n |-> 255 - (i % 7)] :
        n \in (0..MaxExtra) \cup ((FlatLen - MaxExtra)..(FlatLen + MaxExtra)) }

\* A disk whose every sector carries an identifier and a body of its own.
Numbered ==
    [p \in 0..(SECTOR_COUNT - 1) |->
        [id |-> [i \in 1..SECTOR_ID_LEN |-> p + 1],
         data |-> [i \in 1..SECTOR_DATA_LEN |-> 100 + p + i]]]

\* Disk::new and Disk::load, as the export and import commands call them.
InitFlat ==
    /\ mode = "Op" /\ startMode = "Op" /\ pc = "none"
    /\ \E d \in {NewDisk, Formatted, Numbered} :
        /\ file = [exists |-> TRUE, recs |-> Image(d)]
        /\ disk = Load(file.recs)
    /\ cmd = 0 /\ buf = <<>> /\ psn = 0
    /\ rbuf = <<>> /\ datalen = 0 /\ nz = <<>>
    /\ io = <<>>
    /\ lastId = <<>> /\ lastData = <<>>
    /\ dump = <<>> /\ ms = <<>> /\ pattern = <<>>
    /\ call = "load"
    /\ ret = <<>>

\* disk.flatten_data()
FlattenData ==
    /\ call \in {"load", "set_flattened_data"}
    /\ call' = "flatten_data"
    /\ ret' = flatten_data(disk)
    /\ UNCHANGED <<mode, disk, file, startMode, pc, locals, io, lastId, lastData,
                   dump, ms, pattern>>

\* disk.set_flattened_data(v); dump keeps v.
SetFlattenedData ==
    /\ call \in {"load", "flatten_data"}
    /\ \E v \in FlatInputs :
        /\ dump' = v
        /\ disk' = set_flattened_data(disk, v)
    /\ call' = "set_flattened_data"
    /\ ret' = <<>>
    /\ UNCHANGED <<mode, file, startMode, pc, locals, io, lastId, lastData,
                   ms, pattern>>

NextFlat ==
    \/ FlattenData
    \/ SetFlattenedData

SpecFlat == InitFlat /\ [][NextFlat]_vars

\* v cut or filled with zeros on the right to n bytes.
PadTo(v, n) ==
    IF Len(v) >= n THEN SubSeq(v, 1, n) ELSE v \o Zeros(n - Len(v))

C20_Flatten ==
    call = "flatten_data" =>
        /\ Len(ret) = 80 * SECTOR_DATA_LEN
        /\ \A p \in 0..79 : \A k \in 1..SECTOR_DATA_LEN :
            ret[p * SECTOR_DATA_LEN + k] = disk[p].data[k]

C20_Set ==
    /\ call' = "set_flattened_data" =>
        /\ DOMAIN disk' = 0..79
        /\ \A p \in 0..79 : disk'[p].id = disk[p].id
    /\ (call = "set_flattened_data" /\ call' = "flatten_data") =>
        ret' = PadTo(dump, 80 * SECTOR_DATA_LEN)

\* C20: flatten_data returns 80 * SECTOR_DATA_LEN bytes, the data bodies in
\* sector order and no identifier byte; set_flattened_data(v), for a v
\* shorter than, as long as or longer than that, leaves the 80 identifiers as
\* they were, and the flatten_data that follows it returns v cut or filled
\* with zeros on the right to 80 * SECTOR_DATA_LEN bytes.
C20_FlatView == [](C20_Flatten) /\ [][C20_Set]_vars

\* A vector one byte longer than the flat view was set on the disk whose
\* sectors carry identifiers, and the flat view was taken: the vector without
\* its last byte.
C20_Witness ==
    /\ call = "flatten_data"
    /\ Len(dump) = 80 * SECTOR_DATA_LEN + 1
    /\ ret = SubSeq(dump, 1, 80 * SECTOR_DATA_LEN)
    /\ disk[79].id = [i \in 1..SECTOR_ID_LEN |-> 80]
    /\ dump[1] = 2

\* --------------------------------------------------------------------------
\* The machine-state codec (src/src/kh940.rs).  A RAM image is a sequence of
\* 32768 bytes; data[a..b] of the source is Slice(data, a, b).  A MachineState
\* is [patterns, data0, control_data, data1, loaded_pattern, data2].

PATTERN_COUNT == 98
CONTROL_DATA_SIZE == 23
SERIALIZED_DATA_PATTERN_LIST_LENGTH == 686

\* The length of a RAM image, 0x8000.
RAM_SIZE == 32768

\* The offset given to the first pattern, 0x120.
FIRST_OFFSET == 288

\* data[a..b]
Slice(data, a, b) == SubSeq(data, a + 1, b)

\* u16::from_be_bytes
from_be_bytes(hi, lo) == hi * 256 + lo

\* u16::to_be_bytes
to_be_bytes(v) == <<(v \div 256) % 256, v % 256>>

\* ControlData::from_memory_dump; data[k] of the source is data[k + 1].
ControlData_from_memory_dump(data) ==
    [next_pattern_ptr1 |-> from_be_bytes(data[1], data[2]),
     unknown1 |-> from_be_bytes(data[3], data[4]),
     next_pattern_ptr2 |-> from_be_bytes(data[5], data[6]),
     last_pattern_end_ptr |-> from_be_bytes(data[7], data[8]),
     unknown2 |-> from_be_bytes(data[9], data[10]),
     last_pattern_start_ptr |-> from_be_bytes(data[11], data[12]),
     unknown3 |-> ((data[13] * 256 + data[14]) * 256 + data[15]) * 256 + data[16],
     header_end_ptr |-> from_be_bytes(data[17], data[18]),
     unknown_ptr |-> from_be_bytes(data[19], data[20]),
     unknown4_1 |-> from_be_bytes(data[21], data[22]),
     unknown4_2 |-> data[23]]

\* (the control block with the five pointers alone, the rest left zero)
ControlData_serialize_PointersOnly(c) ==
    to_be_bytes(c.next_pattern_ptr1) \o <<0, 0>>
    \o to_be_bytes(c.next_pattern_ptr2)
    \o to_be_bytes(c.last_pattern_end_ptr) \o <<0, 0>>
    \o to_be_bytes(c.last_pattern_start_ptr) \o <<0, 0, 0, 0>>
    \o to_be_bytes(c.header_end_ptr) \o <<0, 0, 0, 0, 0>>

\* ControlData::serialize
ControlData_serialize(c) ==
    to_be_bytes(c.next_pattern_ptr1)
    \o to_be_bytes(c.unknown1)
    \o to_be_bytes(c.next_pattern_ptr2)
    \o to_be_bytes(c.last_pattern_end_ptr)
    \o to_be_bytes(c.unknown2)
    \o to_be_bytes(c.last_pattern_start_ptr)
    \o <<(c.unknown3 \div 16777216) % 256, (c.unknown3 \div 65536) % 256,
         (c.unknown3 \div 256) % 256, c.unknown3 % 256>>
    \o to_be_bytes(c.header_end_ptr)
    \o to_be_bytes(c.unknown_ptr)
    \o to_be_bytes(c.unknown4_1)
    \o <<c.unknown4_2>>

\* Pattern::from_memory_dump: the header of slot `index` and what is read
\* from it.
SlotHeader(data, index) == Slice(data, index * 7, (index + 1) * 7)

SlotFields(data, index) ==
    LET header == SlotHeader(data, index)
        data_nibbles == to_nibbles(Slice(header, 2, 7))
        height == from_bcd(Slice(data_nibbles, 0, 3))
        width == from_bcd(Slice(data_nibbles, 3, 6))
        ptn_num == from_bcd(Slice(data_nibbles, 7, 10))
        end_offset == from_be_bytes(header[1], header[2])
        memo_end_pos == 32767 - end_offset
        memo_start_pos == memo_end_pos - memo_size(height)
        pattern_end_pos == memo_start_pos
        pattern_start_pos == pattern_end_pos - pattern_size(width, height)
    IN [end_offset |-> end_offset, height |-> height, width |-> width,
        ptn_num |-> ptn_num,
        memo_start_pos |-> memo_start_pos, memo_end_pos |-> memo_end_pos,
        pattern_start_pos |-> pattern_start_pos,
        pattern_end_pos |-> pattern_end_pos]

\* Pattern::from_memory_dump panics: a position below zero is an overflow of
\* the subtraction where overflow is checked, and a slice out of range where
\* it wraps.  (A position of exactly -1 wraps to a slice from 0; no image
\* below has one.)
Pattern_from_memory_dump_panics(data, index) ==
    LET f == SlotFields(data, index)
    IN f.end_offset # 0 /\ f.pattern_start_pos < 0

\* Pattern::from_memory_dump: <<>> for None, <<the pattern>> for Some.
Pattern_from_memory_dump(data, index) ==
    LET f == SlotFields(data, index)
    IN IF f.end_offset = 0 THEN <<>>
       ELSE << [number |-> f.ptn_num,
                rows |-> parse_pattern_rows(f.width, f.height,
                             Slice(data, f.pattern_start_pos + 1, f.pattern_end_pos + 1)),
                height |-> f.height,
                width |-> f.width,
                memo |-> Slice(data, f.memo_start_pos + 1, f.memo_end_pos + 1)] >>

\* The sum of f[a..b], and the concatenation of ss[a..b].
RECURSIVE SumRange(_, _, _)
SumRange(f, a, b) ==
    IF a > b THEN 0
    ELSE IF a = b THEN f[a]
    ELSE SumRange(f, a, (a + b) \div 2) + SumRange(f, ((a + b) \div 2) + 1, b)

RECURSIVE ConcatRange(_, _, _)
ConcatRange(ss, a, b) ==
    IF a > b THEN <<>>
    ELSE IF a = b THEN ss[a]
    ELSE ConcatRange(ss, a, (a + b) \div 2) \o ConcatRange(ss, ((a + b) \div 2) + 1, b)

\* MachineState::from_memory_dump: the loop over the slots pushes what each
\* slot holds, in slot order.
from_memory_dump_loop(data) ==
    ConcatRange([i \in 1..PATTERN_COUNT |-> Pattern_from_memory_dump(data, i - 1)],
                1, PATTERN_COUNT)

from_memory_dump_panics(data) ==
    \E i \in 0..(PATTERN_COUNT - 1) : Pattern_from_memory_dump_panics(data, i)

\* MachineState::from_memory_dump
from_memory_dump(data) ==
    [patterns |-> from_memory_dump_loop(data),
     data0 |-> Slice(data, 32480, 32512),
     control_data |-> ControlData_from_memory_dump(Slice(data, 32512, 32535)),
     data1 |-> Slice(data, 32535, 32746),
     loaded_pattern |-> from_bcd(Tail(to_nibbles(Slice(data, 32746, 32748)))),
     data2 |-> Slice(data, 32748, 32768)]

\* (add_pattern without its retain)
Retain_KeepAll(ps, number) == ps

\* add_pattern: self.patterns.retain(|p| p.number != pattern.number)
Retain(ps, number) == SelectSeq(ps, LAMBDA q : q.number # number)

\* sort_unstable_by_key(|p| p.number): the outcomes.  The patterns come in
\* ascending order of number; the order of patterns of one number is not
\* specified, so every order of them is an outcome.
sort_unstable_by_key(ps) ==
    LET sorted == SortSeq(ps, LAMBDA a, b : a.number < b.number)
        shared == { i \in 1..Len(ps) :
                      \E j \in 1..Len(ps) : j # i /\ sorted[j].number = sorted[i].number }
    IN { [i \in 1..Len(ps) |-> IF i \in shared THEN sorted[g[i]] ELSE sorted[i]] :
            g \in { h \in Permutations(shared) :
                      \A i \in shared : sorted[h[i]].number = sorted[i].number } }

\* MachineState::add_pattern: the outcomes.
add_pattern(m, p) ==
    LET pushed == Append(Retain(m.patterns, p.number), p)
    IN { [m EXCEPT !.patterns = sorted] : sorted \in sort_unstable_by_key(pushed) }

\* MachineState::serialize: the pattern_layout, a sequence of
\* [offset, pattern, data]; the offset is a u16.
pattern_layout_loop(ps, offset) ==
    LET datas == [i \in 1..Len(ps) |-> serialize_data(ps[i])]
        data_lens == [i \in 1..Len(ps) |-> Len(datas[i]) % 65536]
    IN [i \in 1..Len(ps) |->
           [offset |-> (offset + SumRange(data_lens, 1, i - 1)) % 65536,
            pattern |-> ps[i],
            data |-> datas[i]]]

pattern_layout(m) == pattern_layout_loop(m.patterns, FIRST_OFFSET)

\* (the control data as it was decoded)
update_KeepPointers(c, layout) == c

\* ControlData::update
update(c, layout) ==
    LET n == Len(layout)
        last_pattern_end == IF n > 0 THEN layout[n].offset ELSE 0
        last_pattern_start ==
            IF n > 0 THEN (layout[n].offset + (Len(layout[n].data) % 65536)) % 65536
            ELSE 0
        next_pattern_ptr ==
            IF n > 0 THEN (last_pattern_start + 1) % 65536 ELSE FIRST_OFFSET
    IN [c EXCEPT !.next_pattern_ptr1 = next_pattern_ptr,
                 !.next_pattern_ptr2 = IF n = 0 THEN 0 ELSE next_pattern_ptr,
                 !.last_pattern_end_ptr = last_pattern_end,
                 !.last_pattern_start_ptr = last_pattern_start,
                 !.header_end_ptr = (32768 - (7 * n) - 7) % 65536]

\* Pattern::serialize_header: the nibbles, and the header.
header_nibbles(p) == to_bcd(p.height, 3) \o to_bcd(p.width, 3) \o to_bcd(p.number, 4)

serialize_header(p, offset) == to_be_bytes(offset) \o from_nibbles(header_nibbles(p))

\* serialize_pattern_layout: max_number
MaxOf(S) == CHOOSE x \in S : \A y \in S : y <= x

max_number(layout) ==
    IF layout = <<>> THEN 900
    ELSE MaxOf({ layout[i].pattern.number : i \in 1..Len(layout) })

\* serialize_pattern_layout: the loop over the layout.
headers_loop(layout) ==
    ConcatRange([i \in 1..Len(layout) |->
                    serialize_header(layout[i].pattern, layout[i].offset)],
                1, Len(layout))

\* serialize_pattern_layout, where none of its assertions fails.
serialize_pattern_layout(layout) ==
    headers_loop(layout)
    \o <<0, 0, 0, 0, 0>>
    \o from_nibbles(to_bcd((max_number(layout) + 1) % 65536, 4))
    \o Zeros((97 - Len(layout)) * 7)

\* serialize_pattern_memory_padding: pattern_pad
pattern_pad(layout) ==
    LET last_pattern_end ==
            IF layout # <<>>
            THEN layout[Len(layout)].offset + Len(layout[Len(layout)].data)
            ELSE FIRST_OFFSET
    IN 32768 - last_pattern_end - SERIALIZED_DATA_PATTERN_LIST_LENGTH

\* serialize_pattern_memory_padding
serialize_pattern_memory_padding(layout) == Zeros(pattern_pad(layout))

\* serialize_pattern_memory: the bodies, the last one first.
serialize_pattern_memory(layout) ==
    ConcatRange([i \in 1..Len(layout) |-> layout[Len(layout) + 1 - i].data],
                1, Len(layout))

\* serialize_loaded_pattern: the nibbles, and the bytes.
loaded_pattern_nibbles(n) == <<1>> \o to_bcd(n, 3)

serialize_loaded_pattern(n) == from_nibbles(loaded_pattern_nibbles(n))

\* The sum of the lengths of the bodies of a layout.
layout_data_len(layout) ==
    SumRange([i \in 1..Len(layout) |-> Len(layout[i].data)], 1, Len(layout))

\* MachineState::serialize ends in a panic or in a failed allocation, on
\* every build: from_nibbles is given an odd number of nibbles (for a
\* header, for max_number + 1 or for the loaded pattern); 97 - layout.len()
\* or pattern_pad is below zero; the header region is not 686 bytes or the
\* image not 32768 bytes.
serialize_panics(m) ==
    LET layout == pattern_layout(m)
        headers_len == 7 * Len(layout)
                       + 5 + (Len(to_bcd((max_number(layout) + 1) % 65536, 4)) \div 2)
                       + (97 - Len(layout)) * 7
    IN \/ \E i \in 1..Len(layout) : Len(header_nibbles(layout[i].pattern)) % 2 # 0
       \/ Len(to_bcd((max_number(layout) + 1) % 65536, 4)) % 2 # 0
       \/ Len(layout) > 97
       \/ \E i \in 1..Len(layout) : Len(header_nibbles(layout[i].pattern)) # 10
       \/ headers_len # SERIALIZED_DATA_PATTERN_LIST_LENGTH
       \/ pattern_pad(layout) < 0
       \/ Len(loaded_pattern_nibbles(m.loaded_pattern)) % 2 # 0
       \/ SERIALIZED_DATA_PATTERN_LIST_LENGTH + pattern_pad(layout)
          + layout_data_len(layout) + Len(m.data0) + CONTROL_DATA_SIZE
          + Len(m.data1) + (Len(loaded_pattern_nibbles(m.loaded_pattern)) \div 2)
          + Len(m.data2) # RAM_SIZE

\* MachineState::serialize overflows a u16: a panic where overflow is
\* checked, the wrapped value where it is not.
serialize_overflows(m) ==
    LET layout == pattern_layout(m)
    IN \/ \E i \in 1..Len(layout) :
            layout[i].offset + (Len(layout[i].data) % 65536) > 65535
       \/ layout # <<>>
          /\ layout[Len(layout)].offset + (Len(layout[Len(layout)].data) % 65536) + 1 > 65535
       \/ max_number(layout) = 65535

\* MachineState::serialize: the state it leaves and the image it returns,
\* where it returns.
serialize_state(m) == [m EXCEPT !.control_data = update(m.control_data, pattern_layout(m))]

serialize(m) ==
    LET layout == pattern_layout(m)
    IN serialize_pattern_layout(layout)
       \o serialize_pattern_memory_padding(layout)
       \o serialize_pattern_memory(layout)
       \o m.data0
       \o ControlData_serialize(serialize_state(m).control_data)
       \o m.data1
       \o serialize_loaded_pattern(m.loaded_pattern)
       \o m.data2

\* --------------------------------------------------------------------------
\* The RAM images given to from_memory_dump, each made of its regions: the
\* 98 header slots, pattern memory (free bytes, then the bodies, the one of
\* the last slot first), data0, the control block, data1, the loaded pattern
\* and data2.

RamImage(slots, fill, mem, d0, ctl, d1, lp, d2) ==
    slots
    \o Zeros(SERIALIZED_DATA_PATTERN_LIST_LENGTH - Len(slots))
    \o [i \in 1..(32480 - SERIALIZED_DATA_PATTERN_LIST_LENGTH - Len(mem)) |-> fill]
    \o mem \o d0 \o ctl \o d1 \o lp \o d2

\* Regions no byte of which is zero.
UsedData0 == [i \in 1..32 |-> 64 + i]
UsedData1 == [i \in 1..211 |-> 1 + (i % 200)]
UsedData2 == [i \in 1..20 |-> 224 + i]

\* The control block of an image (23 bytes): the three pointers p1/p2, end
\* and start, the header end, and the unknown fields 0x1111, 0x2222,
\* 0x33445566, 0x7777, 0x8888 and 0x99.
ControlBlock(p1, p2, end, start, header_end) ==
    to_be_bytes(p1) \o <<17, 17>> \o to_be_bytes(p2) \o to_be_bytes(end)
    \o <<34, 34>> \o to_be_bytes(start) \o <<51, 68, 85, 102>>
    \o to_be_bytes(header_end) \o <<119, 119, 136, 136, 153>>

\* Bodies of bitmaps 5 wide and 2 high: two row bytes (three zero bits, then
\* the five stitches) and one memo byte.
BodyA == <<21, 10, 161>>
BodyB == <<4, 31, 162>>

\* Slot k of the image of 98 patterns, k in 0..97: offset 0x120 + 2k, height
\* 1, width 1, number k + 1; and its body, one row byte and one memo byte.
FullSlot(k) ==
    to_be_bytes(FIRST_OFFSET + 2 * k)
    \o <<0, 16, 1, (k + 1) \div 100, 16 * (((k + 1) \div 10) % 10) + ((k + 1) % 10)>>

FullSlots == [i \in 1..(7 * PATTERN_COUNT) |-> FullSlot((i - 1) \div 7)[((i - 1) % 7) + 1]]

FullMem == [i \in 1..(2 * PATTERN_COUNT) |-> IF i % 2 = 1 THEN (i \div 2) % 2 ELSE 0]

\* The images, by name.
DumpNames ==
    {"zero", "one", "descending", "duplicate", "worn", "high", "full", "short"}

DumpImage(name) ==
    CASE name = "zero" ->
            \* a disk never written to
            Zeros(RAM_SIZE)
      [] name = "one" ->
            \* pattern 901 at 0x120, the next free number 902, pattern 901 loaded
            RamImage(<<1, 32, 0, 32, 5, 9, 1>> \o <<0, 0, 0, 0, 0, 9, 2>>,
                     0, BodyA, UsedData0,
                     ControlBlock(292, 292, 288, 291, 32754),
                     UsedData1, <<25, 1>>, UsedData2)
      [] name = "descending" ->
            \* pattern 902 at 0x120 in slot 0, pattern 901 at 0x123 in slot 1
            RamImage(<<1, 32, 0, 32, 5, 9, 2>> \o <<1, 35, 0, 32, 5, 9, 1>>
                     \o <<0, 0, 0, 0, 0, 9, 3>>,
                     0, BodyB \o BodyA, UsedData0,
                     ControlBlock(295, 295, 291, 294, 32747),
                     UsedData1, <<25, 2>>, UsedData2)
      [] name = "duplicate" ->
            \* two slots of number 901, with different bodies
            RamImage(<<1, 32, 0, 32, 5, 9, 1>> \o <<1, 35, 0, 32, 5, 9, 1>>
                     \o <<0, 0, 0, 0, 0, 9, 2>>,
                     0, BodyB \o BodyA, UsedData0,
                     ControlBlock(295, 295, 291, 294, 32747),
                     UsedData1, <<25, 1>>, UsedData2)
      [] name = "worn" ->
            \* as "one", with free pattern memory that is not zero and 0 as
            \* the first nibble of the loaded pattern
            RamImage(<<1, 32, 0, 32, 5, 9, 1>> \o <<0, 0, 0, 0, 0, 9, 2>>,
                     229, BodyA, UsedData0,
                     ControlBlock(292, 292, 288, 291, 32754),
                     UsedData1, <<9, 1>>, UsedData2)
      [] name = "high" ->
            \* as "one", the pattern numbered 1234
            RamImage(<<1, 32, 0, 32, 5, 18, 52>> \o <<0, 0, 0, 0, 0, 18, 53>>,
                     0, BodyA, UsedData0,
                     ControlBlock(292, 292, 288, 291, 32754),
                     UsedData1, <<25, 1>>, UsedData2)
      [] name = "full" ->
            \* all 98 slots in use
            RamImage(FullSlots, 0, FullMem, UsedData0,
                     ControlBlock(485, 485, 482, 484, 32075),
                     UsedData1, <<16, 1>>, UsedData2)
      [] OTHER ->
            \* "short": a slot whose offset, 0xFFFF, is beyond the image
            RamImage(<<255, 255, 0, 32, 5, 9, 1>>, 0, <<>>, UsedData0,
                     ControlBlock(292, 292, 288, 291, 32754),
                     UsedData1, <<25, 1>>, UsedData2)

\* The bitmaps Pattern::from_image is given: each row has its first stitch
\* and every third one after it.
from_image(pattern_number, w, h) ==
    [number |-> pattern_number,
     rows |-> [y \in 1..h |-> [x \in 1..w |-> (x + y) % 3 = 2]],
     height |-> h,
     width |-> w,
     memo |-> Zeros(memo_size(h))]

\* The patterns the import command adds: two numbers a KH-940 gives to stored
\* patterns, a number of four digits and the largest number.
Imports ==
    { from_image(901, 4, 3), from_image(902, 9, 3), from_image(1234, 1, 1),
      from_image(9999, 1, 1) }

InitCodec ==
    /\ NoEmulator
    /\ dump \in DumpNames
    /\ ms = <<>> /\ pattern = <<>>
    /\ call = "new"
    /\ ret = <<>>

\* MachineState::from_memory_dump(&disk.flatten_data())
FromMemoryDump ==
    /\ call = "new"
    /\ IF from_memory_dump_panics(DumpImage(dump))
       THEN call' = "panic" /\ ms' = ms
       ELSE call' = "from_memory_dump" /\ ms' = from_memory_dump(DumpImage(dump))
    /\ UNCHANGED <<fdc, dump, pattern, ret>>

\* machine_state.add_pattern(pattern); pattern keeps the argument.
AddPattern ==
    /\ call \in {"from_memory_dump", "add_pattern", "serialize"}
    /\ \E p \in Imports :
        /\ pattern' = p
        /\ ms' \in add_pattern(ms, p)
    /\ call' = "add_pattern"
    /\ ret' = <<>>
    /\ UNCHANGED <<fdc, dump>>

\* machine_state.serialize()
Serialize ==
    /\ call \in {"from_memory_dump", "add_pattern", "serialize"}
    /\ \/ /\ serialize_panics(ms) \/ serialize_overflows(ms)
          /\ call' = "panic"
          /\ ret' = <<>>
          /\ ms' = ms
       \/ /\ ~serialize_panics(ms)
          /\ call' = "serialize"
          /\ ret' = serialize(ms)
          /\ ms' = serialize_state(ms)
    /\ UNCHANGED <<fdc, dump, pattern>>

\* A later run of export or import: MachineState::from_memory_dump of the
\* image serialize returned, which set_flattened_data put on the disk.
Reload ==
    /\ call = "serialize"
    /\ IF from_memory_dump_panics(ret)
       THEN call' = "panic" /\ ms' = <<>>
       ELSE call' = "reload" /\ ms' = from_memory_dump(ret)
    /\ UNCHANGED <<fdc, dump, pattern, ret>>

NextCodec ==
    \/ FromMemoryDump
    \/ AddPattern
    \/ Serialize
    \/ Reload

SpecCodec == InitCodec /\ [][NextCodec]_vars

\* C13: serialize, called on a MachineState decoded from an image and given
\* patterns by add_pattern (numbers 1..9999, width and height at most 999),
\* never aborts; it returns 32768 bytes, the first 686 of which are the header
\* region: a header per pattern, the slot of the next free number with a zero
\* offset, and zeros.
C13_SerializeLength ==
    /\ call = "panic" => ms = <<>>
    /\ call = "serialize" =>
        /\ Len(ret) = 32768
        /\ \A k \in 1..Len(ms.patterns) :
            ret[7 * (k - 1) + 1] * 256 + ret[7 * (k - 1) + 2] >= 288
        /\ \A i \in (7 * Len(ms.patterns) + 1)..(7 * Len(ms.patterns) + 5) : ret[i] = 0
        /\ \A i \in (7 * Len(ms.patterns) + 8)..686 : ret[i] = 0
        /\ SubSeq(ret, 32481, 32512) = ms.data0

\* The big-endian word at offset `off` of an image.
Word(image, off) == image[off + 1] * 256 + image[off + 2]

\* The length of the body and memo of a pattern, from its height and width.
BodyLen(p) == CeilDiv(CeilDiv(p.width, 4) * p.height, 2) + CeilDiv(p.height, 2)

\* The offset of pattern k when the patterns are laid out in order from 0x120.
RECURSIVE OffsetOf(_, _)
OffsetOf(ps, k) == IF k = 1 THEN 288 ELSE OffsetOf(ps, k - 1) + BodyLen(ps[k - 1])

\* C14: in the image serialize returns, the control block at 0x7F00 has, with
\* N >= 1 patterns laid out in order from 0x120, last_pattern_end_ptr (at +6)
\* the offset of the last pattern, last_pattern_start_ptr (at +10) that offset
\* plus the length of the last pattern's data, next_pattern_ptr1 (at +0) and
\* next_pattern_ptr2 (at +4) one more than that, and header_end_ptr (at +16)
\* 0x8000 - 7N - 7; with no pattern, 0x120, 0, 0, 0 and 0x7FF9.  The
\* MachineState holds the same five values.
C14_ControlPointers ==
    call = "serialize" =>
        LET n == Len(ms.patterns)
            end == IF n >= 1 THEN OffsetOf(ms.patterns, n) ELSE 0
            start == IF n >= 1 THEN end + BodyLen(ms.patterns[n]) ELSE 0
            next1 == IF n >= 1 THEN start + 1 ELSE 288
            next2 == IF n >= 1 THEN start + 1 ELSE 0
            header_end == IF n >= 1 THEN 32768 - 7 * n - 7 ELSE 32761
        IN /\ Word(ret, 32512 + 6) = end
           /\ Word(ret, 32512 + 10) = start
           /\ Word(ret, 32512) = next1
           /\ Word(ret, 32512 + 4) = next2
           /\ Word(ret, 32512 + 16) = header_end
           /\ ms.control_data.last_pattern_end_ptr = end
           /\ ms.control_data.last_pattern_start_ptr = start
           /\ ms.control_data.next_pattern_ptr1 = next1
           /\ ms.control_data.next_pattern_ptr2 = next2
           /\ ms.control_data.header_end_ptr = header_end

\* The all-zero image was decoded, patterns 902 (9 by 3, 7 bytes) and 901 (4
\* by 3, 4 bytes) were added and the state serialized: pattern 901 lies at
\* 0x120, pattern 902 at 0x124, and the pointers are 0x124, 0x12B, 0x12C,
\* 0x12C and 0x7FEB.
C14_Witness ==
    /\ call = "serialize"
    /\ dump = "zero"
    /\ Len(ms.patterns) = 2
    /\ ms.patterns[1].number = 901 /\ ms.patterns[2].number = 902
    /\ pattern.number = 901
    /\ SubSeq(ret, 32513, 32535)
         = <<1, 44, 0, 0, 1, 44, 1, 36, 0, 0, 1, 43, 0, 0, 0, 0, 127, 235, 0, 0, 0, 0, 0>>

\* The offsets of the ten bytes of the five pointer fields of the control
\* block.
PointerBytes == { 32512 + k : k \in {0, 1, 4, 5, 6, 7, 10, 11, 16, 17} }

\* C15: an image decoded by from_memory_dump and serialized with no
\* add_pattern in between comes back byte for byte, except possibly in the
\* ten bytes of the pointer fields of the control block.
C15_ImageRoundTrip ==
    (call = "serialize" /\ pattern = <<>>) =>
        LET image == DumpImage(dump)
        IN \A off \in 0..32767 :
            off \notin PointerBytes => ret[off + 1] = image[off + 1]

\* What an image holds outside the patterns and the pointers: the three data
\* regions, the six unknown fields of the control block and the three digits
\* of the loaded pattern.
Opaque(image) ==
    [data0 |-> SubSeq(image, 32480 + 1, 32512),
     data1 |-> SubSeq(image, 32535 + 1, 32746),
     data2 |-> SubSeq(image, 32748 + 1, 32768),
     loaded_pattern |-> 100 * (image[32746 + 1] % 16)
                        + 10 * (image[32747 + 1] \div 16) + (image[32747 + 1] % 16),
     unknown1 |-> Word(image, 32512 + 2),
     unknown2 |-> Word(image, 32512 + 8),
     unknown3 |-> 65536 * Word(image, 32512 + 12) + Word(image, 32512 + 14),
     unknown_ptr |-> Word(image, 32512 + 18),
     unknown4_1 |-> Word(image, 32512 + 20),
     unknown4_2 |-> image[32512 + 22 + 1]]

\* The same ten values, as a MachineState holds them.
OpaqueOf(m) ==
    [data0 |-> m.data0, data1 |-> m.data1, data2 |-> m.data2,
     loaded_pattern |-> m.loaded_pattern,
     unknown1 |-> m.control_data.unknown1,
     unknown2 |-> m.control_data.unknown2,
     unknown3 |-> m.control_data.unknown3,
     unknown_ptr |-> m.control_data.unknown_ptr,
     unknown4_1 |-> m.control_data.unknown4_1,
     unknown4_2 |-> m.control_data.unknown4_2]

\* C16: after from_memory_dump and any add_pattern and serialize calls, the
\* MachineState holds data0, data1, data2, loaded_pattern, unknown1, unknown2,
\* unknown3, unknown_ptr, unknown4_1 and unknown4_2 as the image decoded had
\* them, and every image serialize returns has them at 0x7EE0, 0x7F17,
\* 0x7FEC, 0x7FEA and the offsets of the control block.
C16_OpaquePreserved ==
    /\ call \in {"from_memory_dump", "add_pattern", "serialize"} =>
        OpaqueOf(ms) = Opaque(DumpImage(dump))
    /\ call = "serialize" => Opaque(ret) = Opaque(DumpImage(dump))

\* The image "one" was decoded, pattern 902 added and the state serialized:
\* the image returned holds two patterns and the regions and unknown fields
\* of "one".
C16_Witness ==
    /\ call = "serialize"
    /\ dump = "one"
    /\ Len(ms.patterns) = 2
    /\ pattern.number = 902
    /\ ms.control_data.unknown3 = 860116326
    /\ SubSeq(ret, 32481, 32512) = UsedData0
    /\ SubSeq(ret, 32513, 32535)
         = <<1, 43, 17, 17, 1, 43, 1, 35, 34, 34, 1, 42, 51, 68, 85, 102,
             127, 235, 119, 119, 136, 136, 153>>
    /\ SubSeq(ret, 32747, 32748) = <<25, 1>>

C17_Post ==
    call' = "add_pattern" =>
        LET p == pattern'
            before == ms.patterns
            after == ms'.patterns
        IN /\ Cardinality({ i \in 1..Len(after) : after[i].number = p.number }) = 1
           /\ \E i \in 1..Len(after) : after[i] = p
           /\ \A j \in 1..Len(before) :
                before[j].number # p.number =>
                    Cardinality({ i \in 1..Len(after) : after[i] = before[j] })
                      = Cardinality({ i \in 1..Len(before) : before[i] = before[j] })
           /\ Len(after)
                = Cardinality({ j \in 1..Len(before) : before[j].number # p.number }) + 1
           /\ \A i \in 1..(Len(after) - 1) : after[i].number <= after[i + 1].number

\* C17: after add_pattern(p), whatever the MachineState was, exactly one
\* pattern has the number of p and it is p, every pattern of another number
\* is there as before and no other pattern is, and the numbers ascend.
C17_AddPattern == [][C17_Post]_vars

\* The image "descending" (902, then 901) was decoded and a 4 by 3 pattern
\* 901 added: it took the place of the 5 by 2 pattern 901 of the image, and
\* stands before the pattern 902 of the image.
C17_Witness ==
    /\ call = "add_pattern"
    /\ dump = "descending"
    /\ pattern.number = 901 /\ pattern.width = 4
    /\ Len(ms.patterns) = 2
    /\ ms.patterns[1] = pattern
    /\ ms.patterns[2].number = 902 /\ ms.patterns[2].width = 5

\* C18: in every MachineState, the one from_memory_dump returns included, the
\* numbers of the patterns ascend strictly (no number twice), and the image
\* serialize returns has the headers in that order, at ascending offsets.
C18_SortedUnique ==
    /\ call \in {"from_memory_dump", "add_pattern", "serialize"} =>
        \A i \in 1..(Len(ms.patterns) - 1) :
            ms.patterns[i].number < ms.patterns[i + 1].number
    /\ call = "serialize" =>
        \A i \in 1..(Len(ms.patterns) - 1) :
            /\ Word(ret, 7 * (i - 1)) < Word(ret, 7 * i)
            /\ 256 * (ret[7 * (i - 1) + 6] % 16) + ret[7 * (i - 1) + 7]
                 < 256 * (ret[7 * i + 6] % 16) + ret[7 * i + 7]

\* --------------------------------------------------------------------------
\* The BCD conversions (src/src/util.rs) on their own: to_bcd(n, min_width),
\* then from_bcd of the nibbles it returned.  dump is <<n, min_width>>.

\* The largest min_width given to to_bcd.
MaxBcdWidth == 5

InitBcd ==
    /\ NoEmulator
    /\ \E n \in 0..9999 : \E min_width \in 0..MaxBcdWidth : dump = <<n, min_width>>
    /\ ms = <<>> /\ pattern = <<>>
    /\ call = "new"
    /\ ret = <<>>

\* util::to_bcd(n, min_width)
ToBcd ==
    /\ call = "new"
    /\ call' = "to_bcd"
    /\ ret' = to_bcd(dump[1], dump[2])
    /\ UNCHANGED <<fdc, dump, ms, pattern>>

\* util::from_bcd(&ns), ns the nibbles to_bcd returned; ret is <<the number>>.
FromBcd ==
    /\ call = "to_bcd"
    /\ pattern' = ret
    /\ \/ /\ from_bcd_overflows(ret)
          /\ call' = "panic"
          /\ ret' = <<>>
       \/ /\ call' = "from_bcd"
          /\ ret' = <<from_bcd(ret)>>
    /\ UNCHANGED <<fdc, dump, ms>>

NextBcd ==
    \/ ToBcd
    \/ FromBcd

SpecBcd == InitBcd /\ [][NextBcd]_vars

\* 10 to the power k.
RECURSIVE Pow10(_)
Pow10(k) == IF k = 0 THEN 1 ELSE 10 * Pow10(k - 1)

\* C21: for n in 0..9999 and any min_width, to_bcd(n, min_width) has at least
\* min_width nibbles, no more nibbles than that unless n has more digits, and
\* they are the decimal digits of n, the most significant first, zero where n
\* has no digit; from_bcd of them returns, and returns n.
C21_BcdRoundTrip ==
    /\ call = "to_bcd" =>
        /\ Len(ret) >= dump[2]
        /\ Len(ret) > dump[2] => (Len(ret) >= 1 /\ ret[1] # 0)
        /\ \A k \in 1..Len(ret) : ret[k] = (dump[1] \div Pow10(Len(ret) - k)) % 10
        /\ dump[1] < Pow10(Len(ret))
    /\ call # "panic"
    /\ call = "from_bcd" => ret = <<dump[1]>>

\* --------------------------------------------------------------------------
\* The Op preamble, the argument line and the mode over a session
\* (src/src/fdcemu.rs).

\* The bytes of bs that are not zero, in order.
NonzeroOf(bs) == SelectSeq(bs, LAMBDA b : b # 0)

\* A step taken while the engine waits for the preamble: but for an I/O
\* error of the port, it reads one byte.
C22_Waiting ==
    pc = "step_op" =>
        LET bs == BytesRead(io')
            kept == NonzeroOf(bs)
        IN /\ Len(NonzeroOf(BytesRead(io))) < 2
           /\ NoWrites(io')
           /\ mode' = mode
           /\ IF io' = io
              THEN pc' \in {"step_op", "failed"}
              ELSE /\ Len(bs) = Len(BytesRead(io)) + 1
                   /\ Len(kept) < 2 => pc' = "step_op"
                   /\ Len(kept) >= 2 =>
                        /\ Len(kept) = 2
                        /\ bs[Len(bs)] # 0
                        /\ kept = <<90, 90>> => pc' = "op_cmd"
                        /\ kept # <<90, 90>> => pc' = "failed"

C22_Passed ==
    (pc = "op_cmd" /\ startMode = "Op") =>
        /\ NonzeroOf(BytesRead(io)) = <<90, 90>>
        /\ BytesRead(io)[Len(BytesRead(io))] = 90

\* C22: while it waits for the preamble the engine writes nothing and reads
\* on past zero bytes until it has read two bytes that are not zero; the
\* second of them is the last byte it reads there; it goes on to read cmd
\* exactly when the two are 5A 5A and the session ends for any other pair.
C22_OpPreamble == [](C22_Passed) /\ [][C22_Waiting]_vars

\* A preamble with a zero byte before each Z: the engine is about to read
\* cmd.
C22_Witness ==
    /\ pc = "op_cmd"
    /\ startMode = "Op"
    /\ io = << [dir |-> "r", bytes |-> <<0, 90, 0, 90>>] >>

\* An argument line without its spaces, its first field (the bytes before
\* the first comma) and the decimal value of a field.
Stripped(l) == SelectSeq(l, LAMBDA b : b # 32)

FirstField(l) ==
    LET s == Stripped(l)
        commas == { i \in 1..Len(s) : s[i] = 44 }
    IN IF commas = {} THEN s
       ELSE SubSeq(s, 1, (CHOOSE i \in commas : \A j \in commas : i <= j) - 1)

RECURSIVE Decimal(_)
Decimal(f) ==
    IF f = <<>> THEN 0 ELSE 10 * Decimal(SubSeq(f, 1, Len(f) - 1)) + (f[Len(f)] - 48)

\* The sector a line names: 0 for a line with nothing but spaces.
NamedSector(l) == Decimal(FirstField(l))

\* The transaction in progress is an A, B, C, W, X or R in Fdc mode.
SectorTx(t) == mode = "Fdc" /\ \E c \in {65, 66, 67, 87, 88, 82} : FdcTx(t, c)

C23_Line ==
    /\ (pc = "args" /\ SectorTx(io)) => buf = Stripped(LineSoFar)
    /\ (SectorTx(io) /\ HasLine(io) /\ Stripped(ArgLine(io)) = <<>>) =>
        /\ Len(io) >= 2
        /\ io[2] = [dir |-> "w", bytes |-> <<48, 48, 48, 48, 48, 48, 48, 48>>]
    /\ (SectorTx(io) /\ HasLine(io) /\ Len(io) >= 2) =>
        /\ NamedSector(ArgLine(io)) \in 0..79
        /\ io[2] = [dir |-> "w", bytes |-> SuccessStatus(NamedSector(ArgLine(io)))]
        /\ (FdcTx(io, 65) /\ Len(io) = 4) =>
              io[4].bytes = disk[NamedSector(ArgLine(io))].id
        /\ (FdcTx(io, 82) /\ Len(io) = 4) =>
              io[4].bytes = disk[NamedSector(ArgLine(io))].data

C23_Acts ==
    (SectorTx(io') /\ disk' # disk) =>
        \A q \in 0..79 : disk'[q] # disk[q] => q = NamedSector(ArgLine(io'))

\* C23: for A, B, C, W, X and R the engine's argument buffer is the line so
\* far without its spaces; a line that is empty or all spaces is answered
\* with "00000000" and acts on sector 0; in general the status names, and the
\* operation reads or changes, the sector whose number is the first field of
\* the line without its spaces, wherever the spaces stand.
C23_ArgumentParsing == [](C23_Line) /\ [][C23_Acts]_vars

\* "W \r" (a line of one space) completed: the body sent is in sector 0.
C23_Witness ==
    /\ pc = "done"
    /\ io = << [dir |-> "r", bytes |-> <<87, 32, 13>>],
               [dir |-> "w", bytes |-> <<48, 48, 48, 48, 48, 48, 48, 48>>],
               [dir |-> "r", bytes |-> Ramp(SECTOR_DATA_LEN)],
               [dir |-> "w", bytes |-> <<48, 48, 48, 48, 48, 48, 48, 48>>] >>
    /\ disk[0].data = Ramp(SECTOR_DATA_LEN)

\* The patterns have numbers in 1..9999, no two the same.
DistinctNumbers(ps) ==
    /\ \A i \in 1..Len(ps) : ps[i].number \in 1..9999
    /\ \A i, j \in 1..Len(ps) : i # j => ps[i].number # ps[j].number

\* In the image serialize returned, the header of pattern i is at 7 * (i - 1)
\* with the offset the layout gives it, and its memo ends at 0x8000 less that
\* offset.
C24_Placed ==
    (call = "serialize" /\ DistinctNumbers(ms.patterns)) =>
        \A i \in 1..Len(ms.patterns) :
            LET off == OffsetOf(ms.patterns, i)
            IN /\ Word(ret, 7 * (i - 1)) = off
               /\ SubSeq(ret, 32768 - off - Len(ms.patterns[i].memo) + 1, 32768 - off)
                    = ms.patterns[i].memo

C24_Reload ==
    (/\ call = "serialize"
     /\ DistinctNumbers(ms.patterns)
     /\ call' = "reload" \/ (call' = "panic" /\ ms' = <<>>)) =>
        /\ call' = "reload"
        /\ ms'.patterns = ms.patterns

\* C24: for a MachineState whose patterns have distinct numbers in 1..9999,
\* from_memory_dump of the image serialize returned gives the same patterns
\* in the same order, each with its number, width, height, rows and memo; the
\* header of pattern i is at 7 * i and its body and memo end at 0x8000 less
\* its offset.
C24_ImageDecode == [](C24_Placed) /\ [][C24_Reload]_vars

\* --------------------------------------------------------------------------
\* The mode over a whole session.

\* run is between two transactions: before step, after step returned Ok, or
\* inside Disk::save.
Boundary == pc \in {"step", "done", "save"}

\* handle_op_mode_request is running, or the session has ended.
InHandshake == pc \in {"op_cmd", "op_datalen", "op_data", "op_checksum", "failed"}

\* The engine has entered Fdc mode: it is in Fdc mode, or in Op mode inside
\* the handshake of a transaction that began in Fdc mode (or failed in it);
\* step_op is not running.
EnteredFdc ==
    /\ pc # "step_op"
    /\ mode = "Fdc" \/ (InHandshake /\ startMode = "Fdc")

\* The preamble has been read: the engine has entered Fdc mode, or is in the
\* handshake of its first transaction (or failed in it).
PreambleRead == EnteredFdc \/ (InHandshake /\ mode = "Op")

\* Every state in Fdc mode is one of EnteredFdc, and EnteredFdc is never
\* left: from the first state in Fdc mode on, every boundary is in Fdc mode
\* and Op mode is seen only inside the handshake of a ZZ transaction.
C25_Sticky ==
    /\ [](mode = "Fdc" => EnteredFdc)
    /\ [](EnteredFdc /\ Boundary => mode = "Fdc")
    /\ [][EnteredFdc => EnteredFdc']_vars

\* Once step_op has passed the preamble it never runs again.
C25_PreambleOnce ==
    /\ [](pc = "op_cmd" => PreambleRead)
    /\ [](PreambleRead => pc # "step_op")
    /\ [][PreambleRead => PreambleRead']_vars

\* The handshake ends the transaction in Fdc mode or ends the session, and a
\* transaction never returns in Op mode.
C25_HandshakeEnds ==
    /\ [](pc = "done" => mode = "Fdc")
    /\ [][(InHandshake /\ pc # "failed" /\ ~InHandshake') =>
              pc' = "done" /\ mode' = "Fdc"]_vars

\* C25: once the engine has entered Fdc mode it is in Fdc mode at every later
\* transaction boundary; Op mode recurs only inside a ZZ back-to-op
\* transaction, which restores Fdc mode or ends the session; the Op preamble
\* reader succeeds at most once and no transaction completes in Op mode after
\* the first switch.
C25_FdcSticky ==
    /\ C25_Sticky
    /\ C25_PreambleOnce
    /\ C25_HandshakeEnds

\* A transaction that began in Fdc mode went through ZZ and the handshake
\* and has returned in Fdc mode.
C25_Witness ==
    /\ pc = "done"
    /\ startMode = "Fdc"
    /\ mode = "Fdc"
    /\ Len(BytesRead(io)) >= 5
    /\ SubSeq(BytesRead(io), 1, 3) = <<B_Z, B_Z, OP_CMD_FDC>>

====
